---- MODULE Spec2Model ----
(***************************************************************************)
(* The kubelet allocation state store (package state, stateMemory) as a    *)
(* state machine over a Go heap.  Go maps are reference values: every map  *)
(* (a v1.ResourceList, a ContainerResources map, a PodResourceInfoMap) is  *)
(* an object of the heap, named by its address, and a struct value holds   *)
(* the addresses of its map fields.  A struct assignment copies the        *)
(* addresses and therefore shares the maps; DeepCopy and Clone allocate    *)
(* new ones.                                                               *)
(***************************************************************************)
EXTENDS Integers, Sequences, FiniteSets, TLC

VARIABLES
    heap,        \* address -> map object [k |-> kind, m |-> key -> value]
    podInfoMap,  \* stateMemory.podInfoMap: address of the table
    initial,     \* the map the caller gave NewStateMemory (NIL when it gave nil)
    alloc,       \* the v1.ResourceRequirements the caller last passed to a Set
    info,        \* the PodResourceInfo the caller last passed to SetPodResourceInfoMap
    held,        \* which of alloc / info the caller still holds
    got,         \* the v1.ResourceRequirements last returned by a Get
    found,       \* the bool last returned by GetContainerResources
    snapshot,    \* the PodResourceInfoMap last returned by GetPodResourceInfoMap
    res,         \* which of got / snapshot the caller still holds
    op,          \* the operation that ran last
    panicked,    \* a store operation aborted with a runtime panic
    mu,          \* the embedded sync.RWMutex: its writer and its readers
    pc,          \* goroutine -> where it stands in the method it called
    loc,         \* goroutine -> the arguments, locals and results of that method
    committed,   \* the table as the last write method to return left it
    versions,    \* goroutine -> the committed tables since it took the read lock
    e2e,         \* the pod level resources e2e test: the row it runs and how far it got
    conv         \* the CPU request whose cgroup v2 weight was last worked out

vars == <<heap, podInfoMap, initial, alloc, info, held, got, found, snapshot, res, op, panicked,
          mu, pc, loc, committed, versions, e2e, conv>>

\* The state of the store, and the state of the e2e test of the node.
storeVars == <<heap, podInfoMap, initial, alloc, info, held, got, found, snapshot, res, op,
               panicked, mu, pc, loc, committed, versions>>

testVars == <<e2e, conv>>

\* ---------------------------------------------------------------- bounds
\* Quantities range over 1..MaxQty.
MaxQty == 2

\* The CPU requests converted to a weight: every millicore value up to
\* MaxDense, and the millicore values next to each whole number of CPUs up to
\* MaxCPUs, which is beyond the request that reaches the ceiling of the shares.
MaxDense == 300

MaxCPUs == 257

\* ---------------------------------------------------------------- inputs
NIL == 0

\* Pod UIDs callers pass to the store; "" is the UID of length zero.
UIDSeq == <<"", "u1">>
UIDs == {UIDSeq[i] : i \in 1..Len(UIDSeq)}

\* Container names callers pass to the Set operations, and to Delete
\* (where "" asks for the whole pod).
NameSeq == <<"c1", "c2">>
Names == {NameSeq[i] : i \in 1..Len(NameSeq)}
DeleteNames == Names \cup {""}

Qty == 1..MaxQty

\* The goroutines that call the store concurrently.
ProcSeq == <<1, 2>>
Procs == {ProcSeq[i] : i \in 1..Len(ProcSeq)}

\* ---------------------------------------------------------------- Go maps
EmptyFn == [x \in {} |-> 0]

Upd(f, k, v) == [x \in (DOMAIN f) \cup {k} |-> IF x = k THEN v ELSE f[x]]

Del(f, k) == [x \in (DOMAIN f) \ {k} |-> f[x]]

ListObj(m) == [k |-> "list", m |-> m]

ContainersObj(m) == [k |-> "containers", m |-> m]

PodsObj(m) == [k |-> "pods", m |-> m]

\* The lowest free address.
Fresh(h) == CHOOSE a \in 1..(Cardinality(DOMAIN h) + 1) : a \notin DOMAIN h

Put(h, a, obj) == [x \in (DOMAIN h) \cup {a} |-> IF x = a THEN obj ELSE h[x]]

\* len(m) of a map value; a nil map has length 0.
MapLen(h, a) == IF a = NIL THEN 0 ELSE Cardinality(DOMAIN h[a].m)

\* ---------------------------------------------------------------- values
\* v1.ResourceRequirements: the addresses of its Limits and Requests maps.
RR(l, r) == [Limits |-> l, Requests |-> r]

ZeroRR == RR(NIL, NIL)

PodResourceInfo(cr, plr) == [ContainerResources |-> cr, PodLevelResources |-> plr]

ZeroInfo == PodResourceInfo(NIL, ZeroRR)

\* s.podInfoMap[podUID]: the zero value when the key is absent.
PodAt(h, p, podUID) == IF podUID \in DOMAIN h[p].m THEN h[p].m[podUID] ELSE ZeroInfo

\* m[containerName] of a ContainerResources map, the zero value when the map
\* is nil or the key absent.
ContainerAt(h, cr, containerName) ==
    IF cr # NIL /\ containerName \in DOMAIN h[cr].m THEN h[cr].m[containerName] ELSE ZeroRR

HasContainer(h, cr, containerName) == cr # NIL /\ containerName \in DOMAIN h[cr].m

\* ---------------------------------------------------------------- copies
\* One v1.ResourceList copied by the generated DeepCopy: nil stays nil, a map
\* becomes a new map with the same entries.
DeepCopyList(h, a) ==
    IF a = NIL THEN [h |-> h, v |-> NIL]
    ELSE LET n == Fresh(h) IN [h |-> Put(h, n, ListObj(h[a].m)), v |-> n]

\* (*v1.ResourceRequirements).DeepCopy
DeepCopy(h, rr) ==
    LET l == DeepCopyList(h, rr.Limits)
        r == DeepCopyList(l.h, rr.Requests)
    IN [h |-> r.h, v |-> RR(l.v, r.v)]

RECURSIVE CloneContainers(_, _, _, _)
\* The inner loop of Clone: every container of map src, deep-copied into dst.
CloneContainers(h, src, dst, todo) ==
    IF todo = <<>> THEN h
    ELSE IF ~HasContainer(h, src, Head(todo)) THEN CloneContainers(h, src, dst, Tail(todo))
    ELSE LET d == DeepCopy(h, h[src].m[Head(todo)])
         IN CloneContainers([d.h EXCEPT ![dst].m = Upd(@, Head(todo), d.v)], src, dst, Tail(todo))

\* A shallow copy: the struct is copied, its maps are shared.
ShallowClonePodInfo(h, podInfo) == [h |-> h, v |-> podInfo]

\* The struct Clone puts in prCopy[podUID] before it copies the containers:
\* the deep copy of PodLevelResources and a new, empty ContainerResources map.
CloneEntry(h, podInfo) ==
    LET plr == DeepCopy(h, podInfo.PodLevelResources)
        cr == Fresh(plr.h)
    IN [h |-> Put(plr.h, cr, ContainersObj(EmptyFn)), v |-> PodResourceInfo(cr, plr.v)]

\* One iteration of Clone's outer loop: the copy of one PodResourceInfo.
ClonePodInfo(h, podInfo) ==
    LET e == CloneEntry(h, podInfo)
    IN [h |-> CloneContainers(e.h, podInfo.ContainerResources, e.v.ContainerResources, NameSeq),
        v |-> e.v]

RECURSIVE ClonePods(_, _, _, _)
ClonePods(h, pr, prCopy, todo) ==
    IF todo = <<>> THEN h
    ELSE IF Head(todo) \notin DOMAIN h[pr].m THEN ClonePods(h, pr, prCopy, Tail(todo))
    ELSE LET c == ClonePodInfo(h, h[pr].m[Head(todo)])
         IN ClonePods([c.h EXCEPT ![prCopy].m = Upd(@, Head(todo), c.v)], pr, prCopy, Tail(todo))

\* PodResourceInfoMap.Clone
Clone(h, pr) ==
    LET prCopy == Fresh(h)
    IN [h |-> ClonePods(Put(h, prCopy, PodsObj(EmptyFn)), pr, prCopy, UIDSeq), v |-> prCopy]

\* ---------------------------------------------------------------- the store
\* NewStateMemory: a nil argument becomes a new empty map, any other map is
\* kept as it is.
NewStateMemory(h, a) ==
    IF a = NIL
    THEN LET n == Fresh(h) IN [h |-> Put(h, n, PodsObj(EmptyFn)), v |-> n]
    ELSE [h |-> h, v |-> a]

\* The read that makes the pod's entry first, as the Sets do.
GetContainerResourcesEnsure(h, p, podUID, containerName) ==
    LET cm == Fresh(h)
        h1 == IF podUID \in DOMAIN h[p].m THEN h
              ELSE [Put(h, cm, ContainersObj(EmptyFn)) EXCEPT
                      ![p].m = Upd(@, podUID, PodResourceInfo(cm, ZeroRR))]
        cr == PodAt(h1, p, podUID).ContainerResources
        d == DeepCopy(h1, ContainerAt(h1, cr, containerName))
    IN [h |-> d.h, v |-> d.v, ok |-> HasContainer(h1, cr, containerName)]

GetContainerResources(h, p, podUID, containerName) ==
    LET cr == PodAt(h, p, podUID).ContainerResources
        d == DeepCopy(h, ContainerAt(h, cr, containerName))
    IN [h |-> d.h, v |-> d.v, ok |-> HasContainer(h, cr, containerName)]

GetPodLevelResources(h, p, podUId) == DeepCopy(h, PodAt(h, p, podUId).PodLevelResources)

\* The table itself handed out.
GetPodResourceInfoMapNoClone(h, p) == [h |-> h, v |-> p]

GetPodResourceInfoMap(h, p) == Clone(h, p)

\* The first statement of SetContainerResources: the entry is created, with a
\* new ContainerResources map, only when the pod is absent.
SetContainerResourcesEnsure(h, p, podUID) ==
    LET cm == Fresh(h)
    IN IF podUID \in DOMAIN h[p].m THEN h
       ELSE [Put(h, cm, ContainersObj(EmptyFn)) EXCEPT
               ![p].m = Upd(@, podUID, PodResourceInfo(cm, ZeroRR))]

\* Its second statement: the assignment to an entry of the pod's
\* ContainerResources map, a runtime panic when that map is nil.
SetContainerResourcesAssign(h, p, podUID, containerName, a) ==
    LET cr == PodAt(h, p, podUID).ContainerResources
    IN IF cr = NIL THEN [h |-> h, panic |-> TRUE]
       ELSE [h |-> [h EXCEPT ![cr].m = Upd(@, containerName, a)], panic |-> FALSE]

SetContainerResources(h, p, podUID, containerName, a) ==
    SetContainerResourcesAssign(SetContainerResourcesEnsure(h, p, podUID), p, podUID, containerName, a)

\* The first statement of SetPodLevelResources: an absent pod gets an entry
\* with an empty PodLevelResources and no ContainerResources map.
SetPodLevelResourcesEnsure(h, p, podUID) ==
    IF podUID \in DOMAIN h[p].m THEN h
    ELSE [h EXCEPT ![p].m = Upd(@, podUID, PodResourceInfo(NIL, ZeroRR))]

\* The entry written back is a new one: the containers are dropped.
SetPodLevelResourcesStoreNew(h, p, podUID, podInfo, a) ==
    [h EXCEPT ![p].m = Upd(@, podUID, PodResourceInfo(NIL, a))]

\* podInfo.PodLevelResources = alloc; s.podInfoMap[podUID] = podInfo
SetPodLevelResourcesStore(h, p, podUID, podInfo, a) ==
    [h EXCEPT ![p].m = Upd(@, podUID, [podInfo EXCEPT !.PodLevelResources = a])]

\* The entry read, its PodLevelResources replaced, the entry written back.
SetPodLevelResourcesAssign(h, p, podUID, a) ==
    SetPodLevelResourcesStore(h, p, podUID, PodAt(h, p, podUID), a)

SetPodLevelResources(h, p, podUID, a) ==
    [h |-> SetPodLevelResourcesAssign(SetPodLevelResourcesEnsure(h, p, podUID), p, podUID, a),
     panic |-> FALSE]

\* The record is merged into the entry: the containers the pod had stay.
SetPodResourceInfoMapMerge(h, p, podUID, a) ==
    LET old == PodAt(h, p, podUID).ContainerResources
    IN IF old = NIL \/ a.ContainerResources = NIL
       THEN [h |-> [h EXCEPT ![p].m = Upd(@, podUID, a)], panic |-> FALSE]
       ELSE [h |-> [h EXCEPT ![p].m = Upd(@, podUID, a),
                             ![a.ContainerResources].m =
                                 [c \in (DOMAIN h[old].m) \cup (DOMAIN @) |->
                                     IF c \in DOMAIN @ THEN @[c] ELSE h[old].m[c]]],
             panic |-> FALSE]

SetPodResourceInfoMap(h, p, podUID, a) ==
    [h |-> [h EXCEPT ![p].m = Upd(@, podUID, a)], panic |-> FALSE]

\* The pod is kept while containers remain.
deleteContainerKeepEmpty(h, p, podUID, containerName) ==
    LET cr == PodAt(h, p, podUID).ContainerResources
    IN IF cr = NIL THEN h ELSE [h EXCEPT ![cr].m = Del(@, containerName)]

\* Every container of the pod is removed.
deleteContainerRemoveAll(h, p, podUID, containerName) ==
    LET cr == PodAt(h, p, podUID).ContainerResources
    IN IF cr = NIL THEN h ELSE [h EXCEPT ![cr].m = EmptyFn]

\* delete(s.podInfoMap[podUID].ContainerResources, containerName)
deleteContainerRemove(h, p, podUID, containerName) ==
    LET cr == PodAt(h, p, podUID).ContainerResources
    IN IF cr = NIL THEN h ELSE [h EXCEPT ![cr].m = Del(@, containerName)]

\* The pod goes with its last container.
deleteContainerPrune(h, p, podUID) ==
    IF MapLen(h, PodAt(h, p, podUID).ContainerResources) = 0
    THEN [h EXCEPT ![p].m = Del(@, podUID)]
    ELSE h

deleteContainer(h, p, podUID, containerName) ==
    deleteContainerPrune(deleteContainerRemove(h, p, podUID, containerName), p, podUID)

\* delete(s.podInfoMap, podUID)
DeletePod(h, p, podUID) == [h EXCEPT ![p].m = Del(@, podUID)]

Delete(h, p, podUID, containerName) ==
    IF Len(containerName) = 0
    THEN [h |-> DeletePod(h, p, podUID), panic |-> FALSE]
    ELSE [h |-> deleteContainer(h, p, podUID, containerName), panic |-> FALSE]

RECURSIVE RemoveLoopFirst(_, _, _, _)
\* The loop left at the first pod removed.
RemoveLoopFirst(h, p, remainingPods, todo) ==
    IF todo = <<>> THEN h
    ELSE IF Head(todo) \in DOMAIN h[p].m /\ Head(todo) \notin remainingPods
    THEN [h EXCEPT ![p].m = Del(@, Head(todo))]
    ELSE RemoveLoopFirst(h, p, remainingPods, Tail(todo))

\* One iteration of the range loop of RemoveOrphanedPods, at key podUID.
RemoveOne(h, p, remainingPods, podUID) ==
    IF podUID \in DOMAIN h[p].m /\ podUID \notin remainingPods
    THEN [h EXCEPT ![p].m = Del(@, podUID)]
    ELSE h

RECURSIVE RemoveLoop(_, _, _, _)
\* The range loop of RemoveOrphanedPods over the keys of the table.
RemoveLoop(h, p, remainingPods, todo) ==
    IF todo = <<>> THEN h
    ELSE RemoveLoop(RemoveOne(h, p, remainingPods, Head(todo)), p, remainingPods, Tail(todo))

\* The pods of the live set are the ones removed.
RemoveOrphanedPodsInverted(h, p, remainingPods) ==
    [h |-> RemoveLoop(h, p, UIDs \ remainingPods, UIDSeq), panic |-> FALSE]

RemoveOrphanedPods(h, p, remainingPods) ==
    [h |-> RemoveLoop(h, p, remainingPods, UIDSeq), panic |-> FALSE]

\* ---------------------------------------------------------------- what a reader sees
\* The values of the data model, read off the heap: a ResourceSpec is a pair of
\* optional quantity maps, a record an aggregate spec and a mapping from
\* container name to spec (a nil map reads as the empty mapping), the table a
\* mapping from pod UID to record.
ListView(h, a) ==
    IF a = NIL THEN [present |-> FALSE, m |-> EmptyFn] ELSE [present |-> TRUE, m |-> h[a].m]

SpecView(h, rr) == [limits |-> ListView(h, rr.Limits), requests |-> ListView(h, rr.Requests)]

ContainersView(h, cr) ==
    IF cr = NIL THEN EmptyFn ELSE [c \in DOMAIN h[cr].m |-> SpecView(h, h[cr].m[c])]

RecordView(h, podInfo) ==
    [aggregate |-> SpecView(h, podInfo.PodLevelResources),
     containers |-> ContainersView(h, podInfo.ContainerResources)]

TableView(h, p) == [w \in DOMAIN h[p].m |-> RecordView(h, h[p].m[w])]

\* A spec with no request and no limit.
EmptySpec(sv) == DOMAIN sv.limits.m = {} /\ DOMAIN sv.requests.m = {}

\* ---------------------------------------------------------------- the heap, collected
\* The addresses an object holds, in a fixed order of its keys.
RRRefs(rr) == <<rr.Limits, rr.Requests>>

InfoRefs(podInfo) == <<podInfo.ContainerResources>> \o RRRefs(podInfo.PodLevelResources)

RECURSIVE RefsOver(_, _, _)
RefsOver(obj, keys, acc) ==
    IF keys = <<>> THEN acc
    ELSE IF Head(keys) \notin DOMAIN obj.m THEN RefsOver(obj, Tail(keys), acc)
    ELSE RefsOver(obj, Tail(keys),
                  acc \o (IF obj.k = "pods" THEN InfoRefs(obj.m[Head(keys)])
                          ELSE RRRefs(obj.m[Head(keys)])))

Children(obj) ==
    IF obj.k = "list" THEN <<>>
    ELSE IF obj.k = "containers" THEN RefsOver(obj, NameSeq, <<>>)
    ELSE RefsOver(obj, UIDSeq, <<>>)

InSeq(s, x) == \E i \in 1..Len(s) : s[i] = x

RECURSIVE Visit(_, _, _)
\* The objects reachable from the addresses of todo, in the order met.
Visit(h, todo, seen) ==
    IF todo = <<>> THEN seen
    ELSE IF Head(todo) = NIL \/ InSeq(seen, Head(todo)) THEN Visit(h, Tail(todo), seen)
    ELSE Visit(h, Children(h[Head(todo)]) \o Tail(todo), Append(seen, Head(todo)))

Ren(order, a) == IF a = NIL THEN NIL ELSE CHOOSE i \in 1..Len(order) : order[i] = a

RenRR(order, rr) == RR(Ren(order, rr.Limits), Ren(order, rr.Requests))

RenInfo(order, podInfo) ==
    PodResourceInfo(Ren(order, podInfo.ContainerResources), RenRR(order, podInfo.PodLevelResources))

RenObj(order, obj) ==
    IF obj.k = "list" THEN obj
    ELSE IF obj.k = "containers" THEN [obj EXCEPT !.m = [c \in DOMAIN obj.m |-> RenRR(order, obj.m[c])]]
    ELSE [obj EXCEPT !.m = [w \in DOMAIN obj.m |-> RenInfo(order, obj.m[w])]]

\* What a goroutine holds inside a method: the arguments alloc and info, the
\* range value podInfo and the map prCopy of Clone, the result out.
Locals(o, podUID, containerName, remainingPods, al, inf) ==
    [o |-> o, podUID |-> podUID, containerName |-> containerName, remainingPods |-> remainingPods,
     alloc |-> al, info |-> inf, i |-> 0, podInfo |-> ZeroInfo, prCopy |-> NIL,
     out |-> ZeroRR, ok |-> FALSE]

NoLocals == Locals("", "", "", {}, ZeroRR, ZeroInfo)

LocRefs(l) ==
    RRRefs(l.alloc) \o InfoRefs(l.info) \o InfoRefs(l.podInfo) \o <<l.prCopy>> \o RRRefs(l.out)

RECURSIVE AllLocRefs(_, _)
AllLocRefs(locs, todo) ==
    IF todo = <<>> THEN <<>> ELSE LocRefs(locs[Head(todo)]) \o AllLocRefs(locs, Tail(todo))

RenLoc(order, l) ==
    [l EXCEPT !.alloc = RenRR(order, @), !.info = RenInfo(order, @), !.podInfo = RenInfo(order, @),
              !.prCopy = Ren(order, @), !.out = RenRR(order, @)]

\* The next state's heap and references: what is unreachable is collected and
\* the objects are numbered in the order they are met from the references.
CommitAll(h, p, ini, al, inf, g, snap, locs) ==
    LET order == Visit(h, <<p, ini>> \o RRRefs(al) \o InfoRefs(inf) \o RRRefs(g) \o <<snap>>
                          \o AllLocRefs(locs, ProcSeq), <<>>)
    IN /\ heap' = [i \in 1..Len(order) |-> RenObj(order, h[order[i]])]
       /\ podInfoMap' = Ren(order, p)
       /\ initial' = Ren(order, ini)
       /\ alloc' = RenRR(order, al)
       /\ info' = RenInfo(order, inf)
       /\ got' = RenRR(order, g)
       /\ snapshot' = Ren(order, snap)
       /\ loc' = [t \in Procs |-> RenLoc(order, locs[t])]
       /\ UNCHANGED testVars

\* A step of the one caller of the sequential specifications: a whole method,
\* no goroutine inside the store.
Commit(h, p, ini, al, inf, g, snap) ==
    /\ CommitAll(h, p, ini, al, inf, g, snap, loc)
    /\ UNCHANGED <<mu, pc, committed, versions>>

\* ---------------------------------------------------------------- the callers' values
\* The v1.ResourceRequirements a caller builds: 0 is the zero value (no maps),
\* q > 0 has a cpu limit of q and a cpu request of 1, each in a map of its own.
RRLits == {0, 1}

MakeRR(h, lit) ==
    IF lit = 0 THEN [h |-> h, v |-> ZeroRR]
    ELSE LET l == Fresh(h)
             h1 == Put(h, l, ListObj([x \in {"cpu"} |-> lit]))
             r == Fresh(h1)
         IN [h |-> Put(h1, r, ListObj([x \in {"cpu"} |-> 1])), v |-> RR(l, r)]

\* The PodResourceInfo a caller builds: its ContainerResources map is nil or
\* holds the containers of names, each with the spec `each`; its
\* PodLevelResources is the spec agg.
InfoLit(nilmap, names, agg, each) == [nilmap |-> nilmap, names |-> names, agg |-> agg, each |-> each]

InfoLits ==
    {InfoLit(TRUE, {}, 0, 0), InfoLit(TRUE, {}, 1, 0), InfoLit(FALSE, {}, 0, 0),
     InfoLit(FALSE, {"c1"}, 0, 1), InfoLit(FALSE, {"c1", "c2"}, 1, 0),
     InfoLit(FALSE, {"c1", "c2"}, 1, 1)}

RECURSIVE MakeContainers(_, _, _, _)
MakeContainers(h, cr, lit, todo) ==
    IF todo = <<>> THEN h
    ELSE IF Head(todo) \notin lit.names THEN MakeContainers(h, cr, lit, Tail(todo))
    ELSE LET a == MakeRR(h, lit.each)
         IN MakeContainers([a.h EXCEPT ![cr].m = Upd(@, Head(todo), a.v)], cr, lit, Tail(todo))

MakeInfo(h, lit) ==
    LET a == MakeRR(h, lit.agg)
        cr == Fresh(a.h)
    IN IF lit.nilmap THEN [h |-> a.h, v |-> PodResourceInfo(NIL, a.v)]
       ELSE [h |-> MakeContainers(Put(a.h, cr, ContainersObj(EmptyFn)), cr, lit, NameSeq),
             v |-> PodResourceInfo(cr, a.v)]

\* ---------------------------------------------------------------- operations
ReadOps == {"GetContainerResources", "GetPodLevelResources", "GetPodResourceInfoMap"}

WriteOps == {"SetContainerResources", "SetPodLevelResources", "SetPodResourceInfoMap",
             "Delete", "deleteContainer", "RemoveOrphanedPods"}

\* A caller builds the argument and calls the store; with keep it goes on
\* holding the argument afterwards.
CallSetContainerResources(podUID, containerName, lit, keep) ==
    /\ ~panicked
    /\ LET a == MakeRR(heap, lit)
           r == SetContainerResources(a.h, podInfoMap, podUID, containerName, a.v)
       IN /\ Commit(r.h, podInfoMap, initial, IF keep THEN a.v ELSE ZeroRR, ZeroInfo, got, snapshot)
          /\ panicked' = r.panic
    /\ held' = IF keep THEN "alloc" ELSE "none"
    /\ op' = "SetContainerResources"
    /\ UNCHANGED <<found, res>>

CallSetPodLevelResources(podUID, lit, keep) ==
    /\ ~panicked
    /\ LET a == MakeRR(heap, lit)
           r == SetPodLevelResources(a.h, podInfoMap, podUID, a.v)
       IN /\ Commit(r.h, podInfoMap, initial, IF keep THEN a.v ELSE ZeroRR, ZeroInfo, got, snapshot)
          /\ panicked' = r.panic
    /\ held' = IF keep THEN "alloc" ELSE "none"
    /\ op' = "SetPodLevelResources"
    /\ UNCHANGED <<found, res>>

CallSetPodResourceInfoMap(podUID, lit, keep) ==
    /\ ~panicked
    /\ LET a == MakeInfo(heap, lit)
           r == SetPodResourceInfoMap(a.h, podInfoMap, podUID, a.v)
       IN /\ Commit(r.h, podInfoMap, initial, ZeroRR, IF keep THEN a.v ELSE ZeroInfo, got, snapshot)
          /\ panicked' = r.panic
    /\ held' = IF keep THEN "info" ELSE "none"
    /\ op' = "SetPodResourceInfoMap"
    /\ UNCHANGED <<found, res>>

CallDelete(podUID, containerName) ==
    /\ ~panicked
    /\ LET r == Delete(heap, podInfoMap, podUID, containerName)
       IN /\ Commit(r.h, podInfoMap, initial, alloc, info, got, snapshot)
          /\ panicked' = r.panic
    /\ op' = IF Len(containerName) = 0 THEN "Delete" ELSE "deleteContainer"
    /\ UNCHANGED <<held, found, res>>

CallRemoveOrphanedPods(remainingPods) ==
    /\ ~panicked
    /\ LET r == RemoveOrphanedPods(heap, podInfoMap, remainingPods)
       IN /\ Commit(r.h, podInfoMap, initial, alloc, info, got, snapshot)
          /\ panicked' = r.panic
    /\ op' = "RemoveOrphanedPods"
    /\ UNCHANGED <<held, found, res>>

CallGetContainerResources(podUID, containerName) ==
    /\ ~panicked
    /\ LET r == GetContainerResources(heap, podInfoMap, podUID, containerName)
       IN /\ Commit(r.h, podInfoMap, initial, alloc, info, r.v, NIL)
          /\ found' = r.ok
    /\ res' = "got"
    /\ op' = "GetContainerResources"
    /\ UNCHANGED <<held, panicked>>

CallGetPodLevelResources(podUID) ==
    /\ ~panicked
    /\ LET r == GetPodLevelResources(heap, podInfoMap, podUID)
       IN Commit(r.h, podInfoMap, initial, alloc, info, r.v, NIL)
    /\ found' = FALSE
    /\ res' = "got"
    /\ op' = "GetPodLevelResources"
    /\ UNCHANGED <<held, panicked>>

CallGetPodResourceInfoMap ==
    /\ ~panicked
    /\ LET r == GetPodResourceInfoMap(heap, podInfoMap)
       IN Commit(r.h, podInfoMap, initial, alloc, info, ZeroRR, r.v)
    /\ found' = FALSE
    /\ res' = "snapshot"
    /\ op' = "GetPodResourceInfoMap"
    /\ UNCHANGED <<held, panicked>>

\* ---------------------------------------------------------------- the callers' own steps
\* What a caller does, outside the store, with the values it holds: it writes
\* into their maps.
SetQty(h, a, q) == [h EXCEPT ![a].m = Upd(@, "cpu", q)]

Toggle(h, a, k, v) ==
    IF k \in DOMAIN h[a].m THEN [h EXCEPT ![a].m = Del(@, k)] ELSE [h EXCEPT ![a].m = Upd(@, k, v)]

\* alloc.Limits["cpu"] = q, on the value passed to a Set
MutateAlloc(q) ==
    /\ ~panicked /\ held = "alloc" /\ alloc.Limits # NIL
    /\ heap[alloc.Limits].m["cpu"] # q
    /\ Commit(SetQty(heap, alloc.Limits, q), podInfoMap, initial, alloc, info, got, snapshot)
    /\ op' = "MutateAlloc"
    /\ UNCHANGED <<held, found, res, panicked>>

\* info.ContainerResources[c] = v1.ResourceRequirements{} or
\* delete(info.ContainerResources, c), on the record passed to SetPodResourceInfoMap
MutateInfoContainers(c) ==
    /\ ~panicked /\ held = "info" /\ info.ContainerResources # NIL
    /\ Commit(Toggle(heap, info.ContainerResources, c, ZeroRR),
              podInfoMap, initial, alloc, info, got, snapshot)
    /\ op' = "MutateInfo"
    /\ UNCHANGED <<held, found, res, panicked>>

\* info.PodLevelResources.Limits["cpu"] = q
MutateInfoLimits(q) ==
    /\ ~panicked /\ held = "info" /\ info.PodLevelResources.Limits # NIL
    /\ heap[info.PodLevelResources.Limits].m["cpu"] # q
    /\ Commit(SetQty(heap, info.PodLevelResources.Limits, q),
              podInfoMap, initial, alloc, info, got, snapshot)
    /\ op' = "MutateInfo"
    /\ UNCHANGED <<held, found, res, panicked>>

\* t[w] = PodResourceInfo{} or delete(t, w), on the map given to NewStateMemory
MutateInitial(w) ==
    /\ ~panicked /\ initial # NIL
    /\ Commit(Toggle(heap, initial, w, ZeroInfo), podInfoMap, initial, alloc, info, got, snapshot)
    /\ op' = "MutateInitial"
    /\ UNCHANGED <<held, found, res, panicked>>

\* A write into a map of the value a Get has just returned.
MutateGot(field, q) ==
    /\ ~panicked /\ res = "got" /\ op \in ReadOps /\ got[field] # NIL
    /\ heap[got[field]].m["cpu"] # q
    /\ Commit(SetQty(heap, got[field], q), podInfoMap, initial, alloc, info, got, snapshot)
    /\ op' = "MutateGot"
    /\ UNCHANGED <<held, found, res, panicked>>

\* Writes into the table GetPodResourceInfoMap has just returned: an entry of
\* it removed or added, a container of an entry removed or added, a limit of
\* an aggregate or of a container changed.
MutateSnapshotPods(w) ==
    /\ ~panicked /\ res = "snapshot" /\ op \in ReadOps
    /\ Commit(Toggle(heap, snapshot, w, ZeroInfo), podInfoMap, initial, alloc, info, got, snapshot)
    /\ op' = "MutateSnapshot"
    /\ UNCHANGED <<held, found, res, panicked>>

MutateSnapshotContainers(w, c) ==
    /\ ~panicked /\ res = "snapshot" /\ op \in ReadOps
    /\ w \in DOMAIN heap[snapshot].m
    /\ heap[snapshot].m[w].ContainerResources # NIL
    /\ Commit(Toggle(heap, heap[snapshot].m[w].ContainerResources, c, ZeroRR),
              podInfoMap, initial, alloc, info, got, snapshot)
    /\ op' = "MutateSnapshot"
    /\ UNCHANGED <<held, found, res, panicked>>

\* The limits maps of the entry of w in the returned table: the aggregate's
\* and each container's.
SnapshotLimits(h, snap, w) ==
    LET e == PodAt(h, snap, w)
    IN ({e.PodLevelResources.Limits}
        \cup {ContainerAt(h, e.ContainerResources, c).Limits : c \in Names}) \ {NIL}

MutateSnapshotLimits(w, q) ==
    /\ ~panicked /\ res = "snapshot" /\ op \in ReadOps
    /\ \E a \in SnapshotLimits(heap, snapshot, w) :
         /\ heap[a].m["cpu"] # q
         /\ Commit(SetQty(heap, a, q), podInfoMap, initial, alloc, info, got, snapshot)
    /\ op' = "MutateSnapshot"
    /\ UNCHANGED <<held, found, res, panicked>>

\* The caller lets go of what a read returned.
Discard ==
    /\ ~panicked /\ res # "none"
    /\ Commit(heap, podInfoMap, initial, alloc, info, ZeroRR, NIL)
    /\ found' = FALSE
    /\ res' = "none"
    /\ op' = "Discard"
    /\ UNCHANGED <<held, panicked>>

\* ---------------------------------------------------------------- strings and quantities
\* A Go string is the sequence of its characters; "" is <<>>.
Digits == <<"0", "1", "2", "3", "4", "5", "6", "7", "8", "9">>

IsDigit(c) == \E i \in 1..Len(Digits) : Digits[i] = c

DigitOf(c) == (CHOOSE i \in 1..Len(Digits) : Digits[i] = c) - 1

\* strconv.FormatInt(n, 10) of an n that is not negative.
RECURSIVE FormatInt(_)
FormatInt(n) ==
    IF n < Len(Digits) THEN <<Digits[n + 1]>>
    ELSE Append(FormatInt(n \div Len(Digits)), Digits[(n % Len(Digits)) + 1])

\* The number a string of digits writes.
RECURSIVE ParseDigits(_)
ParseDigits(s) ==
    IF s = <<>> THEN 0
    ELSE Len(Digits) * ParseDigits(SubSeq(s, 1, Len(s) - 1)) + DigitOf(s[Len(s)])

\* How many digits a string starts with.
RECURSIVE NumberLen(_)
NumberLen(s) == IF s = <<>> \/ ~IsDigit(Head(s)) THEN 0 ELSE 1 + NumberLen(Tail(s))

\* A resource.Quantity: a number and the suffix that scales it; "m" is a
\* thousandth, "Mi" is 2^20, no suffix is the unit.
Quantity(n, suffix) == [n |-> n, suffix |-> suffix]

ZeroQuantity == Quantity(0, <<>>)

\* resource.MustParse of a well-formed string: digits and one of the suffixes.
MustParse(s) == Quantity(ParseDigits(SubSeq(s, 1, NumberLen(s))), SubSeq(s, NumberLen(s) + 1, Len(s)))

\* Quantity.MilliValue(), of a quantity with no binary suffix.
MilliValue(q) == IF q.suffix = <<"m">> THEN q.n ELSE q.n * 1000

\* Quantity.Value(): the quantity in units, rounded up.
Value(q) ==
    IF q.suffix = <<"m">> THEN (q.n + 999) \div 1000
    ELSE IF q.suffix = <<"M", "i">> THEN q.n * 1048576
    ELSE q.n

\* Quantity.Cmp(other) = 0: the two write the same amount.
SameAmount(a, b) ==
    LET units(q) == IF q.suffix = <<"m">> THEN q.n \div 1000 ELSE Value(q)
        millis(q) == IF q.suffix = <<"m">> THEN q.n % 1000 ELSE 0
    IN units(a) = units(b) /\ millis(a) = millis(b)

\* A pointer to a value of the test, or the nil pointer of its type.
Ptr(v) == [isnil |-> FALSE, v |-> v]

NilPtr(zero) == [isnil |-> TRUE, v |-> zero]

\* A v1.ResourceList of the test: nil, or a map from resource names to quantities.
NilList == [isnil |-> TRUE, m |-> EmptyFn]

MakeList(m) == [isnil |-> FALSE, m |-> m]

Has(list, name) == ~list.isnil /\ name \in DOMAIN list.m

\* ResourceList.Cpu() and ResourceList.Memory(): a pointer to the quantity under
\* the name.  For a name the list does not hold the pointer is nil when
\* absentNil, and points to a zero quantity otherwise.
Name(list, name, absentNil) ==
    IF Has(list, name) THEN Ptr(list.m[name])
    ELSE IF absentNil THEN NilPtr(ZeroQuantity)
    ELSE Ptr(ZeroQuantity)

\* v1.ResourceRequirements of a pod spec or of a container of the test.
Requirements(requests, limits) == [Requests |-> requests, Limits |-> limits]

\* ---------------------------------------------------------------- the e2e test's pods
\* ResourceInfo and ContainerInfo, the test's own descriptions of resources.
ResourceInfo(cpuReq, cpuLim, memReq, memLim) ==
    [CPUReq |-> cpuReq, CPULim |-> cpuLim, MemReq |-> memReq, MemLim |-> memLim]

NoResourceInfo == ResourceInfo(<<>>, <<>>, <<>>, <<>>)

ContainerInfo(name, resources) == [Name |-> name, Resources |-> resources]

\* getResourceInfo with the limit strings parsed into the requests as well.
getResourceInfoLimitsAsRequests(ri) ==
    LET requests == [x \in {"cpu", "memory"} |-> IF x = "cpu" THEN ri.v.CPUReq ELSE ri.v.MemReq]
        limits == [x \in {"cpu", "memory"} |-> IF x = "cpu" THEN ri.v.CPULim ELSE ri.v.MemLim]
        list(strs, from) ==
            IF \A x \in DOMAIN strs : strs[x] = <<>> THEN NilList
            ELSE MakeList([x \in {y \in DOMAIN strs : strs[y] # <<>>} |-> MustParse(from[x])])
    IN IF ri.isnil THEN Requirements(NilList, NilList)
       ELSE Requirements(list(requests, limits), list(limits, limits))

\* getResourceInfo: the requirements a description asks for; a map is made only
\* when one of its two strings is not empty.
getResourceInfo(ri) ==
    LET requests == [x \in {"cpu", "memory"} |-> IF x = "cpu" THEN ri.v.CPUReq ELSE ri.v.MemReq]
        limits == [x \in {"cpu", "memory"} |-> IF x = "cpu" THEN ri.v.CPULim ELSE ri.v.MemLim]
        list(strs) ==
            IF \A x \in DOMAIN strs : strs[x] = <<>> THEN NilList
            ELSE MakeList([x \in {y \in DOMAIN strs : strs[y] # <<>>} |-> MustParse(strs[x])])
    IN IF ri.isnil THEN Requirements(NilList, NilList)
       ELSE Requirements(list(requests), list(limits))

\* makeContainer: the container of a description.
makeContainer(c) == [Name |-> c.Name, Resources |-> getResourceInfo(c.Resources)]

\* makePod: the pod of a row of the table.  Spec.Resources is set only for a
\* description that is not nil.
makePod(podResources, containers) ==
    [Resources |-> IF podResources.isnil THEN NilPtr(Requirements(NilList, NilList))
                   ELSE Ptr(getResourceInfo(podResources)),
     Containers |-> [i \in 1..Len(containers) |-> makeContainer(containers[i])]]

\* ---------------------------------------------------------------- the node
\* What the kubelet does with a pod that has pod level resources: the QoS class
\* it reports and the cgroup v2 files it writes.
MinShares == 2

MaxShares == 262144

QuotaPeriod == 100000

\* kubecm.MilliCPUToShares: linear in the request, 1024 for a whole CPU, kept
\* within MinShares..MaxShares.
MilliCPUToShares(milliCPU) ==
    LET shares == (milliCPU * 1024) \div 1000
    IN IF shares < MinShares THEN MinShares
       ELSE IF shares > MaxShares THEN MaxShares
       ELSE shares

\* kubecm.MilliCPUToQuota: the share of the period the limit allows.
MilliCPUToQuota(milliCPU, period) == (milliCPU * period) \div 1000

\* (x * a) \div d of 64 bit integers, for 0 <= x and a * (x \div 1000) and
\* 1000 * d below 2^31: the product is worked out in two limbs of x.
MulDiv(x, a, d) ==
    LET high == a * (x \div 1000)
        low == a * (x % 1000)
    IN 1000 * (high \div d) + (1000 * (high % d) + low) \div d

\* The kubelet's conversion of cgroup v1 cpu.shares to cgroup v2 cpu.weight.
CpuSharesToCpuWeight(cpuShares) == 1 + MulDiv(cpuShares - 2, 9999, 262142)

\* The text of cpu.max: the quota and the period.
QuotaLine(limit) ==
    FormatInt(MilliCPUToQuota(MilliValue(limit), QuotaPeriod)) \o <<" ">> \o FormatInt(QuotaPeriod)

\* The limits in force in a container: its own, and the pod's for a resource
\* it sets no limit for.  Requests are the container's own.
EnforcedLimits(pod, container) ==
    LET own == container.Resources.Limits
        agg == IF pod.Resources.isnil THEN NilList ELSE pod.Resources.v.Limits
        names == {x \in {"cpu", "memory"} : Has(own, x) \/ Has(agg, x)}
    IN MakeList([x \in names |-> IF Has(own, x) THEN own.m[x] ELSE agg.m[x]])

\* The files of one cgroup: a knob is written only for a quantity that is set.
ScopeFiles(requests, limits) ==
    LET knobs == {k \in {"cpu.weight", "cpu.max", "memory.max"} :
                    \/ k = "cpu.weight" /\ Has(requests, "cpu")
                    \/ k = "cpu.max" /\ Has(limits, "cpu")
                    \/ k = "memory.max" /\ Has(limits, "memory")}
    IN [k \in knobs |->
          IF k = "cpu.weight"
             THEN FormatInt(CpuSharesToCpuWeight(MilliCPUToShares(MilliValue(requests.m["cpu"]))))
          ELSE IF k = "cpu.max" THEN QuotaLine(limits.m["cpu"])
          ELSE FormatInt(Value(limits.m["memory"]))]

\* The cgroups of a pod: the pod's own under "", and one under each container's name.
CgroupFiles(pod) ==
    LET names == {pod.Containers[i].Name : i \in 1..Len(pod.Containers)}
        of(n) == CHOOSE i \in 1..Len(pod.Containers) : pod.Containers[i].Name = n
        agg == IF pod.Resources.isnil THEN Requirements(NilList, NilList) ELSE pod.Resources.v
    IN [s \in names \cup {""} |->
          IF s = "" THEN ScopeFiles(agg.Requests, agg.Limits)
          ELSE ScopeFiles(pod.Containers[of(s)].Resources.Requests,
                          EnforcedLimits(pod, pod.Containers[of(s)]))]

\* A scope asks for something.
Specifies(resources) == DOMAIN resources.Requests.m # {} \/ DOMAIN resources.Limits.m # {}

\* Request and limit of a resource are both set and equal.
Pinned(resources, name) ==
    /\ Has(resources.Requests, name) /\ Has(resources.Limits, name)
    /\ SameAmount(resources.Requests.m[name], resources.Limits.m[name])

\* The QoS class in the status of a pod with pod level resources.
GetPodQOS(pod) ==
    IF Pinned(pod.Resources.v, "cpu") /\ Pinned(pod.Resources.v, "memory") THEN "Guaranteed"
    ELSE IF Specifies(pod.Resources.v)
            \/ \E i \in 1..Len(pod.Containers) : Specifies(pod.Containers[i].Resources)
       THEN "Burstable"
    ELSE "BestEffort"

\* e2epod.VerifyCgroupValue: the file of the cgroup reads as expected.
VerifyCgroupValue(files, scope, file, expected) ==
    file \in DOMAIN files[scope] /\ files[scope][file] = expected

\* ---------------------------------------------------------------- the e2e test's checks
\* The files the test reads: the knobs of a cgroup.
Cgroupv2MemLimit == "memory.max"

Cgroupv2CPULimit == "cpu.max"

Cgroupv2CPUWeight == "cpu.weight"

CPUPeriod == <<"1", "0", "0", "0", "0", "0">>

\* fmt.Sprintf("%s %s", a, b)
Sprintf2(a, b) == a \o <<" ">> \o b

\* What a check came to: "ok", "err" (it returned an error or an Expect
\* failed) or "panic" (it dereferenced a nil pointer), and what it had
\* compared with the files by then.
Outcome(status, asserted) == [status |-> status, asserted |-> asserted]

Expectation(scope, file, value) == [scope |-> scope, file |-> file, value |-> value]

\* VerifyPodResources: the pod that was created has the resources of the description.
VerifyPodResources(gotPod, expectedInfo) == gotPod.Resources = Ptr(getResourceInfo(Ptr(expectedInfo)))

\* VerifyQoS comparing the expected class with itself.
VerifyQoSSelf(gotPod, expectedQoS) == expectedQoS = expectedQoS

\* VerifyQoS: the pod's status carries the expected class.
VerifyQoS(gotPod, expectedQoS) == gotPod.QOSClass = expectedQoS

\* The conversion with the highest shares value as the divisor.
expectedCPUWeightOverMaxShares(expectedCPUShares) == 1 + MulDiv(expectedCPUShares - 2, 9999, 262144)

\* The conversion with the sign of the scaled term slipped.
expectedCPUWeightSignSlip(expectedCPUShares) == 1 - MulDiv(expectedCPUShares - 2, 9999, 262142)

\* The cgroup v2 cpu.weight the test expects for a cgroup v1 cpu.shares value.
expectedCPUWeight(expectedCPUShares) == 1 + MulDiv(expectedCPUShares - 2, 9999, 262142)

\* The text the test expects in cpu.max for a limit.
expectedCPULimit(limit) ==
    Sprintf2(FormatInt(MilliCPUToQuota(MilliValue(limit), QuotaPeriod)), CPUPeriod)

\* VerifyPodCgroups: cpu.weight, cpu.max and memory.max of the pod's cgroup, in
\* this order, each worked out from pod.Spec.Resources; the first that differs
\* ends the check.
VerifyPodCgroups(pod, files, absentNil) ==
    LET cpuReq == Name(pod.Resources.v.Requests, "cpu", absentNil)
        cpuLim == Name(pod.Resources.v.Limits, "cpu", absentNil)
        memLim == Name(pod.Resources.v.Limits, "memory", absentNil)
        weight == Expectation("", Cgroupv2CPUWeight,
                              FormatInt(expectedCPUWeight(MilliCPUToShares(MilliValue(cpuReq.v)))))
        quota == Expectation("", Cgroupv2CPULimit, expectedCPULimit(cpuLim.v))
        memory == Expectation("", Cgroupv2MemLimit, FormatInt(Value(memLim.v)))
        holds(x) == VerifyCgroupValue(files, x.scope, x.file, x.value)
    IN IF pod.Resources.isnil THEN Outcome("ok", {})
       ELSE IF cpuReq.isnil THEN Outcome("panic", {})
       ELSE IF ~holds(weight) THEN Outcome("err", {weight})
       ELSE IF cpuLim.isnil THEN Outcome("panic", {weight})
       ELSE IF ~holds(quota) THEN Outcome("err", {weight, quota})
       ELSE IF memLim.isnil THEN Outcome("panic", {weight, quota})
       ELSE IF ~holds(memory) THEN Outcome("err", {weight, quota, memory})
       ELSE Outcome("ok", {weight, quota, memory})

\* The round that compares every container with the pod's limits, whether it
\* has limits of its own or not.
VerifyContainerCgroupLimitsAlways(pod, container, files, absentNil) ==
    LET podMem == Name(pod.Resources.v.Limits, "memory", absentNil)
        podCpu == Name(pod.Resources.v.Limits, "cpu", absentNil)
        memory == Expectation(container.Name, Cgroupv2MemLimit, FormatInt(Value(podMem.v)))
        quota == Expectation(container.Name, Cgroupv2CPULimit, expectedCPULimit(podCpu.v))
        holds(x) == VerifyCgroupValue(files, x.scope, x.file, x.value)
        mem == IF ~podMem.isnil /\ Has(pod.Resources.v.Limits, "memory") THEN {memory} ELSE {}
        cpu == IF ~podCpu.isnil /\ Has(pod.Resources.v.Limits, "cpu") THEN {quota} ELSE {}
    IN IF \E x \in mem : ~holds(x) THEN Outcome("err", mem)
       ELSE IF \E x \in cpu : ~holds(x) THEN Outcome("err", mem \cup cpu)
       ELSE Outcome("ok", mem \cup cpu)

\* One round of the loop of VerifyContainersCgroupLimits: memory.max, then
\* cpu.max, of a container for which the accessor of its own limit gives nil
\* while the pod's gives a quantity.
VerifyContainerCgroupLimits(pod, container, files, absentNil) ==
    LET podMem == Name(pod.Resources.v.Limits, "memory", absentNil)
        podCpu == Name(pod.Resources.v.Limits, "cpu", absentNil)
        ownMem == Name(container.Resources.Limits, "memory", absentNil)
        ownCpu == Name(container.Resources.Limits, "cpu", absentNil)
        memory == Expectation(container.Name, Cgroupv2MemLimit, FormatInt(Value(podMem.v)))
        quota == Expectation(container.Name, Cgroupv2CPULimit, expectedCPULimit(podCpu.v))
        holds(x) == VerifyCgroupValue(files, x.scope, x.file, x.value)
        mem == IF ~podMem.isnil /\ ownMem.isnil THEN {memory} ELSE {}
        cpu == IF ~podCpu.isnil /\ ownCpu.isnil THEN {quota} ELSE {}
    IN IF \E x \in mem : ~holds(x) THEN Outcome("err", mem)
       ELSE IF \E x \in cpu : ~holds(x) THEN Outcome("err", mem \cup cpu)
       ELSE Outcome("ok", mem \cup cpu)

\* VerifyContainersCgroupLimits: the containers in their order, until one fails.
RECURSIVE VerifyContainersFrom(_, _, _, _)
VerifyContainersFrom(pod, i, files, absentNil) ==
    IF i > Len(pod.Containers) THEN Outcome("ok", {})
    ELSE LET one == VerifyContainerCgroupLimits(pod, pod.Containers[i], files, absentNil)
             rest == VerifyContainersFrom(pod, i + 1, files, absentNil)
         IN IF one.status # "ok" THEN one
            ELSE Outcome(rest.status, one.asserted \cup rest.asserted)

VerifyContainersCgroupLimits(pod, files, absentNil) ==
    IF pod.Resources.isnil THEN Outcome("panic", {})
    ELSE VerifyContainersFrom(pod, 1, files, absentNil)

\* ---------------------------------------------------------------- the e2e test's rows
testCase(podResources, containers, qos) ==
    [podResources |-> podResources, containers |-> containers,
     expected |-> [qos |-> qos, podResources |-> podResources]]

\* The quantities the table writes.
Cpu20m == <<"2", "0", "m">>

Cpu30m == <<"3", "0", "m">>

Cpu50m == <<"5", "0", "m">>

Cpu100m == <<"1", "0", "0", "m">>

Mem20Mi == <<"2", "0", "M", "i">>

Mem30Mi == <<"3", "0", "M", "i">>

Mem50Mi == <<"5", "0", "M", "i">>

Mem100Mi == <<"1", "0", "0", "M", "i">>

Bare(name) == ContainerInfo(name, NilPtr(NoResourceInfo))

With(name, cpuReq, cpuLim, memReq, memLim) ==
    ContainerInfo(name, Ptr(ResourceInfo(cpuReq, cpuLim, memReq, memLim)))

\* The table of podLevelResourcesTests.
tests ==
    <<testCase(Ptr(ResourceInfo(Cpu100m, Cpu100m, Mem100Mi, Mem100Mi)),
               <<Bare("c1"), Bare("c2")>>, "Guaranteed"),
      testCase(Ptr(ResourceInfo(Cpu100m, Cpu100m, Mem100Mi, Mem100Mi)),
               <<With("c1", Cpu50m, Cpu100m, Mem50Mi, Mem100Mi),
                 With("c2", Cpu50m, Cpu100m, Mem50Mi, Mem100Mi)>>, "Guaranteed"),
      testCase(Ptr(ResourceInfo(Cpu100m, Cpu100m, Mem100Mi, Mem100Mi)),
               <<With("c1", Cpu50m, Cpu100m, Mem50Mi, Mem100Mi), Bare("c2")>>, "Guaranteed"),
      testCase(Ptr(ResourceInfo(Cpu50m, Cpu100m, Mem50Mi, Mem100Mi)),
               <<Bare("c1"), Bare("c2")>>, "Burstable"),
      testCase(Ptr(ResourceInfo(Cpu50m, Cpu100m, Mem50Mi, Mem100Mi)),
               <<With("c1", Cpu20m, Cpu100m, Mem20Mi, Mem100Mi),
                 With("c2", Cpu30m, Cpu100m, Mem30Mi, Mem100Mi)>>, "Burstable"),
      testCase(Ptr(ResourceInfo(Cpu50m, Cpu100m, Mem50Mi, Mem100Mi)),
               <<With("c1", Cpu20m, Cpu100m, Mem50Mi, Mem100Mi), Bare("c2")>>, "Burstable")>>

TableRows == {tests[i] : i \in 1..Len(tests)}

\* Rows the table could be given besides: every choice of set and unset
\* quantities for the pod, containers with limits of their own, with requests
\* only or with nothing, and each class as the expected one.
QOSClasses == {"Guaranteed", "Burstable", "BestEffort"}

OtherRows ==
    {testCase(Ptr(ResourceInfo(cpuReq, cpuLim, memReq, memLim)), <<c1, c2>>, qos) :
        cpuReq \in {<<>>, Cpu100m}, cpuLim \in {<<>>, Cpu100m},
        memReq \in {<<>>, Mem100Mi}, memLim \in {<<>>, Mem100Mi},
        c1 \in {Bare("c1"), With("c1", <<>>, Cpu50m, <<>>, <<>>), With("c1", <<>>, <<>>, <<>>, Mem50Mi),
                With("c1", Cpu20m, Cpu50m, Mem20Mi, Mem50Mi), With("c1", Cpu20m, <<>>, Mem20Mi, <<>>)},
        c2 \in {Bare("c2"), With("c2", <<>>, Cpu100m, <<>>, Mem100Mi)},
        qos \in QOSClasses}

Rows == TableRows \cup OtherRows

\* ---------------------------------------------------------------- the e2e test
\* One row of the table at a time: the pod is made and created, the four checks
\* run in their order, the pod is deleted.  A check that fails ends the row.
Test(step, absentNil, tc, pod, files, asserted) ==
    [step |-> step, absentNil |-> absentNil, tc |-> tc, pod |-> pod, files |-> files,
     asserted |-> asserted]

NoRow == testCase(NilPtr(NoResourceInfo), <<>>, "")

NoPod == [Resources |-> NilPtr(Requirements(NilList, NilList)), Containers |-> <<>>, QOSClass |-> ""]

NoTest == Test("start", FALSE, NoRow, NoPod, EmptyFn, {})

\* The conversion worked out last: of a CPU request ("request") or of a shares
\* value alone ("shares"), with the shares and the weight it gave.
Conversion(of, milliCPU, shares, weight) ==
    [of |-> of, milliCPU |-> milliCPU, shares |-> shares, weight |-> weight]

NoConversion == Conversion("none", 0, 0, 0)

\* ---------------------------------------------------------------- specifications
\* The store after NewStateMemory(t): t is nil, or (given) an empty map that
\* the caller keeps.
ConstructWith(h0, given, kept) ==
    /\ LET s == NewStateMemory(h0, given)
       IN /\ heap = s.h
          /\ podInfoMap = s.v
          /\ initial = kept
    /\ alloc = ZeroRR
    /\ info = ZeroInfo
    /\ held = "none"
    /\ got = ZeroRR
    /\ found = FALSE
    /\ snapshot = NIL
    /\ res = "none"
    /\ op = "NewStateMemory"
    /\ panicked = FALSE
    /\ mu = [writer |-> 0, readers |-> {}]
    /\ pc = [t \in Procs |-> "idle"]
    /\ loc = [t \in Procs |-> NoLocals]
    /\ committed = TableView(heap, podInfoMap)
    /\ versions = [t \in Procs |-> {}]
    /\ e2e = NoTest
    /\ conv = NoConversion

Construct(given) ==
    IF given THEN ConstructWith(Put(EmptyFn, 1, PodsObj(EmptyFn)), 1, 1)
    ELSE ConstructWith(EmptyFn, NIL, NIL)

Init == Construct(FALSE)

Writes(U, keep) ==
    \/ \E w \in U, c \in Names, lit \in RRLits : CallSetContainerResources(w, c, lit, keep)
    \/ \E w \in U, lit \in RRLits : CallSetPodLevelResources(w, lit, keep)
    \/ \E w \in U, lit \in InfoLits : CallSetPodResourceInfoMap(w, lit, keep)
    \/ \E w \in U, c \in DeleteNames : CallDelete(w, c)
    \/ \E S \in SUBSET U : CallRemoveOrphanedPods(S)

Reads(U) ==
    \/ \E w \in U, c \in Names : CallGetContainerResources(w, c)
    \/ \E w \in U : CallGetPodLevelResources(w)
    \/ CallGetPodResourceInfoMap

\* Callers that pass values they let go of, and let go of what a read
\* returned before they write again.
Next ==
    \/ res = "none" /\ Writes(UIDs, FALSE)
    \/ Reads(UIDs)
    \/ Discard

Spec == Init /\ [][Next]_vars

\* One pod, and callers that go on holding what they passed to the store (the
\* map given to NewStateMemory included) and write into it.
InitAlias == \E given \in BOOLEAN : Construct(given)

NextAlias ==
    \/ Writes({"u1"}, TRUE)
    \/ \E q \in Qty : MutateAlloc(q)
    \/ \E c \in Names : MutateInfoContainers(c)
    \/ \E q \in Qty : MutateInfoLimits(q)
    \/ \E w \in {"u1"} : MutateInitial(w)

SpecAlias == InitAlias /\ [][NextAlias]_vars

\* One pod, and callers that go on holding what a read returned while the
\* store is written, and write into what a read has just returned.
NextRetain ==
    \/ op \notin {"MutateGot", "MutateSnapshot"} /\ Writes({"u1"}, FALSE)
    \/ Reads({"u1"})
    \/ \E f \in {"Limits", "Requests"}, q \in Qty : MutateGot(f, q)
    \/ \E w \in {"u1"} : MutateSnapshotPods(w)
    \/ \E w \in {"u1"}, c \in Names : MutateSnapshotContainers(w, c)
    \/ \E w \in {"u1"}, q \in Qty : MutateSnapshotLimits(w, q)
    \/ Discard

SpecRetain == Init /\ [][NextRetain]_vars

\* ---------------------------------------------------------------- goroutines
\* The methods run by goroutines, a statement at a time.  Every method starts
\* with s.Lock() or s.RLock() (LockMode) and defers the matching unlock.
\* Every method takes the read lock.
LockModeShared(o) == "RLock"

LockMode(o) == IF o \in ReadOps THEN "RLock" ELSE "Lock"

\* A mutex that makes nobody wait.
CanLockAlways(m, mode) == TRUE

\* sync.RWMutex: Lock waits for the writer and all readers to leave, RLock for
\* the writer only.
CanLock(m, mode) ==
    IF mode = "Lock" THEN m.writer = 0 /\ m.readers = {} ELSE m.writer = 0

Locked(m, mode, t) ==
    IF mode = "Lock" THEN [m EXCEPT !.writer = t] ELSE [m EXCEPT !.readers = @ \cup {t}]

Unlocked(m, mode, t) ==
    IF mode = "Lock" THEN [m EXCEPT !.writer = 0] ELSE [m EXCEPT !.readers = @ \ {t}]

\* A call: the method, its arguments, and the literals its alloc or info
\* argument is built from.
Call(o, podUID, containerName, remainingPods, lit, ilit) ==
    [o |-> o, podUID |-> podUID, containerName |-> containerName,
     remainingPods |-> remainingPods, lit |-> lit, ilit |-> ilit]

\* The calls the goroutines make, all about pod "u1".
ConcReads ==
    {Call("GetContainerResources", "u1", "c1", {}, 0, InfoLit(TRUE, {}, 0, 0)),
     Call("GetPodLevelResources", "u1", "", {}, 0, InfoLit(TRUE, {}, 0, 0)),
     Call("GetPodResourceInfoMap", "", "", {}, 0, InfoLit(TRUE, {}, 0, 0))}

ConcWrites ==
    {Call("SetContainerResources", "u1", "c1", {}, 1, InfoLit(TRUE, {}, 0, 0)),
     Call("SetPodLevelResources", "u1", "", {}, 1, InfoLit(TRUE, {}, 0, 0)),
     Call("SetPodResourceInfoMap", "u1", "", {}, 0, InfoLit(FALSE, {"c1", "c2"}, 1, 1)),
     Call("SetPodResourceInfoMap", "u1", "", {}, 0, InfoLit(TRUE, {}, 0, 0)),
     Call("Delete", "u1", "", {}, 0, InfoLit(TRUE, {}, 0, 0)),
     Call("Delete", "u1", "c1", {}, 0, InfoLit(TRUE, {}, 0, 0)),
     Call("RemoveOrphanedPods", "", "", {}, 0, InfoLit(TRUE, {}, 0, 0))}

\* The step of goroutine t that takes the heap to h, its locals to l and itself
\* to label; nothing else moves.
Step(t, h, l, label) ==
    /\ CommitAll(h, podInfoMap, initial, alloc, info, got, snapshot, [loc EXCEPT ![t] = l])
    /\ pc' = [pc EXCEPT ![t] = label]
    /\ UNCHANGED <<held, found, res, op, panicked, mu, committed, versions>>

At(t, label, ops) == ~panicked /\ pc[t] = label /\ loc[t].o \in ops

\* The call: the goroutine builds its arguments and reaches the lock.
Invoke(t, call) ==
    /\ ~panicked /\ pc[t] = "idle"
    /\ LET a == MakeRR(heap, call.lit)
           r == IF call.o = "SetPodResourceInfoMap" THEN MakeInfo(a.h, call.ilit)
                ELSE [h |-> a.h, v |-> ZeroInfo]
       IN Step(t, r.h, Locals(call.o, call.podUID, call.containerName, call.remainingPods,
                              a.v, r.v), "lock")

\* s.Lock() / s.RLock() returns.
Acquire(t) ==
    /\ ~panicked /\ pc[t] = "lock"
    /\ CanLock(mu, LockMode(loc[t].o))
    /\ mu' = Locked(mu, LockMode(loc[t].o), t)
    /\ pc' = [pc EXCEPT ![t] = "body"]
    /\ versions' = [versions EXCEPT ![t] = IF loc[t].o \in ReadOps THEN {committed} ELSE {}]
    /\ UNCHANGED <<heap, podInfoMap, initial, alloc, info, held, got, found, snapshot, res, op,
                   panicked, loc, committed, e2e, conv>>

StepGetContainerResources(t) ==
    /\ At(t, "body", {"GetContainerResources"})
    /\ LET r == GetContainerResources(heap, podInfoMap, loc[t].podUID, loc[t].containerName)
       IN Step(t, r.h, [loc[t] EXCEPT !.out = r.v, !.ok = r.ok], "return")

StepGetPodLevelResources(t) ==
    /\ At(t, "body", {"GetPodLevelResources"})
    /\ LET r == GetPodLevelResources(heap, podInfoMap, loc[t].podUID)
       IN Step(t, r.h, [loc[t] EXCEPT !.out = r.v], "return")

\* Clone: prCopy := PodResourceInfoMap{}
StepCloneNew(t) ==
    /\ At(t, "body", {"GetPodResourceInfoMap"})
    /\ LET n == Fresh(heap)
       IN Step(t, Put(heap, n, PodsObj(EmptyFn)), [loc[t] EXCEPT !.prCopy = n, !.i = 1], "range")

\* Clone: the range loop reaches its next key (a key the table holds when the
\* loop gets to it) and stores the entry's struct in prCopy, or ends.
StepCloneEntry(t) ==
    /\ At(t, "range", {"GetPodResourceInfoMap"})
    /\ LET l == loc[t]
           keys == {j \in l.i..Len(UIDSeq) : UIDSeq[j] \in DOMAIN heap[podInfoMap].m}
           j == CHOOSE x \in keys : \A y \in keys : x <= y
           e == CloneEntry(heap, heap[podInfoMap].m[UIDSeq[j]])
       IN IF keys = {} THEN Step(t, heap, [l EXCEPT !.i = 0, !.podInfo = ZeroInfo], "return")
          ELSE Step(t, [e.h EXCEPT ![l.prCopy].m = Upd(@, UIDSeq[j], e.v)],
                    [l EXCEPT !.i = j, !.podInfo = heap[podInfoMap].m[UIDSeq[j]]], "containers")

\* Clone: the inner loop over the containers of the range value.
StepCloneContainers(t) ==
    /\ At(t, "containers", {"GetPodResourceInfoMap"})
    /\ LET l == loc[t]
           dst == heap[l.prCopy].m[UIDSeq[l.i]].ContainerResources
       IN Step(t, CloneContainers(heap, l.podInfo.ContainerResources, dst, NameSeq),
               [l EXCEPT !.i = @ + 1, !.podInfo = ZeroInfo], "range")

StepSetContainerResourcesEnsure(t) ==
    /\ At(t, "body", {"SetContainerResources"})
    /\ Step(t, SetContainerResourcesEnsure(heap, podInfoMap, loc[t].podUID), loc[t], "assign")

\* The assignment; when it panics the deferred Unlock runs and the program dies.
StepSetContainerResourcesAssign(t) ==
    /\ At(t, "assign", {"SetContainerResources"})
    /\ LET l == loc[t]
           r == SetContainerResourcesAssign(heap, podInfoMap, l.podUID, l.containerName, l.alloc)
       IN /\ CommitAll(r.h, podInfoMap, initial, alloc, info, got, snapshot, loc)
          /\ panicked' = r.panic
          /\ pc' = [pc EXCEPT ![t] = IF r.panic THEN "panic" ELSE "return"]
          /\ mu' = IF r.panic THEN Unlocked(mu, LockMode(l.o), t) ELSE mu
    /\ UNCHANGED <<held, found, res, op, committed, versions>>

StepSetPodLevelResourcesEnsure(t) ==
    /\ At(t, "body", {"SetPodLevelResources"})
    /\ Step(t, SetPodLevelResourcesEnsure(heap, podInfoMap, loc[t].podUID), loc[t], "read")

\* podInfo := s.podInfoMap[podUID]
StepSetPodLevelResourcesRead(t) ==
    /\ At(t, "read", {"SetPodLevelResources"})
    /\ Step(t, heap, [loc[t] EXCEPT !.podInfo = PodAt(heap, podInfoMap, loc[t].podUID)], "assign")

\* The local changed and written back.
StepSetPodLevelResourcesAssign(t) ==
    /\ At(t, "assign", {"SetPodLevelResources"})
    /\ Step(t, SetPodLevelResourcesStore(heap, podInfoMap, loc[t].podUID, loc[t].podInfo,
                                         loc[t].alloc),
            [loc[t] EXCEPT !.podInfo = ZeroInfo], "return")

StepSetPodResourceInfoMap(t) ==
    /\ At(t, "body", {"SetPodResourceInfoMap"})
    /\ Step(t, SetPodResourceInfoMap(heap, podInfoMap, loc[t].podUID, loc[t].info).h,
            loc[t], "return")

\* Delete with an empty container name.
StepDeletePod(t) ==
    /\ At(t, "body", {"Delete"}) /\ Len(loc[t].containerName) = 0
    /\ Step(t, DeletePod(heap, podInfoMap, loc[t].podUID), loc[t], "return")

\* Delete with a container name: deleteContainer, its two statements.
StepDeleteContainerRemove(t) ==
    /\ At(t, "body", {"Delete"}) /\ Len(loc[t].containerName) # 0
    /\ Step(t, deleteContainerRemove(heap, podInfoMap, loc[t].podUID, loc[t].containerName),
            loc[t], "prune")

StepDeleteContainerPrune(t) ==
    /\ At(t, "prune", {"Delete"})
    /\ Step(t, deleteContainerPrune(heap, podInfoMap, loc[t].podUID), loc[t], "return")

\* RemoveOrphanedPods: one iteration of its loop, or the end of the loop.
StepRemoveOne(t) ==
    /\ At(t, "body", {"RemoveOrphanedPods"})
    /\ LET l == loc[t]
       IN IF l.i = Len(UIDSeq) THEN Step(t, heap, [l EXCEPT !.i = 0], "return")
          ELSE Step(t, RemoveOne(heap, podInfoMap, l.remainingPods, UIDSeq[l.i + 1]),
                    [l EXCEPT !.i = @ + 1], "body")

\* The deferred unlock runs and the method is left: the goroutine goes to
\* label, holding l.
Leave(t, label, l) ==
    /\ ~panicked /\ pc[t] = "return"
    /\ mu' = Unlocked(mu, LockMode(loc[t].o), t)
    /\ committed' = IF loc[t].o \in ReadOps THEN committed ELSE TableView(heap, podInfoMap)
    /\ versions' = [u \in Procs |->
                      IF u = t \/ versions[u] = {} THEN {}
                      ELSE versions[u] \cup {committed'}]
    /\ CommitAll(heap, podInfoMap, initial, alloc, info, got, snapshot, [loc EXCEPT ![t] = l])
    /\ pc' = [pc EXCEPT ![t] = label]
    /\ UNCHANGED <<held, found, res, op, panicked>>

\* The deferred unlock, and the return to the caller, who lets go of the result
\* and may call again.
Return(t) == Leave(t, "idle", NoLocals)

NextConc ==
    \E t \in Procs :
        \/ \E call \in ConcReads \cup ConcWrites : Invoke(t, call)
        \/ Acquire(t)
        \/ StepGetContainerResources(t)
        \/ StepGetPodLevelResources(t)
        \/ StepCloneNew(t)
        \/ StepCloneEntry(t)
        \/ StepCloneContainers(t)
        \/ StepSetContainerResourcesEnsure(t)
        \/ StepSetContainerResourcesAssign(t)
        \/ StepSetPodLevelResourcesEnsure(t)
        \/ StepSetPodLevelResourcesRead(t)
        \/ StepSetPodLevelResourcesAssign(t)
        \/ StepSetPodResourceInfoMap(t)
        \/ StepDeletePod(t)
        \/ StepDeleteContainerRemove(t)
        \/ StepDeleteContainerPrune(t)
        \/ StepRemoveOne(t)
        \/ Return(t)

SpecConc == Init /\ [][NextConc]_vars

\* Goroutine t is between the return of its Lock or RLock and its deferred unlock.
InCritical(t) == pc[t] \in {"body", "range", "containers", "assign", "read", "prune", "return"}

\* ---------------------------------------------------------------- a sweep racing a write
\* The map a caller builds for NewStateMemory: the pods of DOMAIN f, each with
\* the record of its literal.
RECURSIVE MakeTable(_, _, _, _)
MakeTable(h, t, f, todo) ==
    IF todo = <<>> THEN h
    ELSE IF Head(todo) \notin DOMAIN f THEN MakeTable(h, t, f, Tail(todo))
    ELSE LET a == MakeInfo(h, f[Head(todo)])
         IN MakeTable([a.h EXCEPT ![t].m = Upd(@, Head(todo), a.v)], t, f, Tail(todo))

\* The store made from any such map, which the caller then lets go of.
InitRace ==
    \E ps \in SUBSET UIDs : \E f \in [ps -> InfoLits] :
        ConstructWith(MakeTable(Put(EmptyFn, 1, PodsObj(EmptyFn)), 1, f, UIDSeq), 1, NIL)

\* Goroutine Sweeper calls RemoveOrphanedPods(S) once, with "u1" not in S;
\* goroutine Writer calls one Set about "u1" once.
Sweeper == ProcSeq[1]

Writer == ProcSeq[2]

RaceSweeps ==
    {Call("RemoveOrphanedPods", "", "", S, 0, InfoLit(TRUE, {}, 0, 0)) : S \in SUBSET (UIDs \ {"u1"})}

RaceWrites ==
    {Call("SetContainerResources", "u1", c, {}, lit, InfoLit(TRUE, {}, 0, 0)) :
        c \in Names, lit \in RRLits}
    \cup {Call("SetPodLevelResources", "u1", "", {}, lit, InfoLit(TRUE, {}, 0, 0)) : lit \in RRLits}
    \cup {Call("SetPodResourceInfoMap", "u1", "", {}, 0, ilit) : ilit \in InfoLits}

\* The method returns and the goroutine ends, its arguments still in its frame.
Exit(t) == Leave(t, "done", loc[t])

NextRace ==
    \/ \E call \in RaceSweeps : Invoke(Sweeper, call)
    \/ \E call \in RaceWrites : Invoke(Writer, call)
    \/ \E t \in Procs :
        \/ Acquire(t)
        \/ StepSetContainerResourcesEnsure(t)
        \/ StepSetContainerResourcesAssign(t)
        \/ StepSetPodLevelResourcesEnsure(t)
        \/ StepSetPodLevelResourcesRead(t)
        \/ StepSetPodLevelResourcesAssign(t)
        \/ StepSetPodResourceInfoMap(t)
        \/ StepRemoveOne(t)
        \/ Exit(t)

SpecRace == InitRace /\ [][NextRace]_vars

\* ---------------------------------------------------------------- every call returns
\* Each goroutine makes one call, any of the reads and writes, on a store made
\* from any table about pod "u1", and is done when the call has returned.
InitOnce ==
    \E ps \in SUBSET {"u1"} : \E f \in [ps -> InfoLits] :
        ConstructWith(MakeTable(Put(EmptyFn, 1, PodsObj(EmptyFn)), 1, f, UIDSeq), 1, NIL)

\* The statements of the methods between the lock and the deferred unlock.
Statements(t) ==
    \/ StepGetContainerResources(t)
    \/ StepGetPodLevelResources(t)
    \/ StepCloneNew(t)
    \/ StepCloneEntry(t)
    \/ StepCloneContainers(t)
    \/ StepSetContainerResourcesEnsure(t)
    \/ StepSetContainerResourcesAssign(t)
    \/ StepSetPodLevelResourcesEnsure(t)
    \/ StepSetPodLevelResourcesRead(t)
    \/ StepSetPodLevelResourcesAssign(t)
    \/ StepSetPodResourceInfoMap(t)
    \/ StepDeletePod(t)
    \/ StepDeleteContainerRemove(t)
    \/ StepDeleteContainerPrune(t)
    \/ StepRemoveOne(t)

NextOnce ==
    \E t \in Procs :
        \/ \E call \in ConcReads \cup ConcWrites : Invoke(t, call)
        \/ Acquire(t)
        \/ Statements(t)
        \/ Exit(t)

\* Goroutine t can take a step: it is inside a method, or at a Lock or RLock
\* that the mutex grants.
Ready(t) ==
    /\ ~panicked
    /\ \/ InCritical(t)
       \/ pc[t] = "lock" /\ CanLock(mu, LockMode(loc[t].o))

\* Goroutine t runs: it can take a step, and it moves to another place of its
\* method (every step of NextOnce that moves pc[t] is a step of goroutine t).
Runs(t) ==
    /\ Ready(t)
    /\ \E l \in {"body", "range", "containers", "assign", "read", "prune", "return", "panic", "done"} \ {pc[t]} :
          pc' = [pc EXCEPT ![t] = l]

\* Fair scheduling: a goroutine that stays able to run is run by the scheduler.
SpecOnce ==
    InitOnce /\ [][NextOnce]_vars /\ \A t \in Procs : WF_pc(Runs(t))

\* ---------------------------------------------------------------- the e2e test's steps
\* makePod and podClient.CreateSync: the node reports the class and writes the files.
CreateSync(tc, absentNil) ==
    /\ e2e.step = "start"
    /\ LET testPod == makePod(tc.podResources, tc.containers)
           pod == [Resources |-> testPod.Resources, Containers |-> testPod.Containers,
                   QOSClass |-> GetPodQOS(testPod)]
       IN e2e' = Test("created", absentNil, tc, pod, CgroupFiles(testPod), {})
    /\ UNCHANGED <<conv, storeVars>>

\* The step a check's outcome leads to.
After(outcome, label) ==
    IF outcome.status = "ok" THEN label ELSE IF outcome.status = "err" THEN "failed" ELSE "panic"

CheckPodResources ==
    /\ e2e.step = "created"
    /\ e2e' = [e2e EXCEPT !.step = IF e2e.tc.podResources.isnil THEN "panic"
                                   ELSE IF VerifyPodResources(e2e.pod, e2e.tc.podResources.v)
                                        THEN "resources"
                                   ELSE "failed"]
    /\ UNCHANGED <<conv, storeVars>>

CheckQoS ==
    /\ e2e.step = "resources"
    /\ e2e' = [e2e EXCEPT !.step = IF VerifyQoS(e2e.pod, e2e.tc.expected.qos) THEN "qos" ELSE "failed"]
    /\ UNCHANGED <<conv, storeVars>>

CheckPodCgroups ==
    /\ e2e.step = "qos"
    /\ LET r == VerifyPodCgroups(e2e.pod, e2e.files, e2e.absentNil)
       IN e2e' = [e2e EXCEPT !.step = After(r, "pod cgroups"), !.asserted = r.asserted]
    /\ UNCHANGED <<conv, storeVars>>

CheckContainersCgroupLimits ==
    /\ e2e.step = "pod cgroups"
    /\ LET r == VerifyContainersCgroupLimits(e2e.pod, e2e.files, e2e.absentNil)
       IN e2e' = [e2e EXCEPT !.step = After(r, "containers"), !.asserted = @ \cup r.asserted]
    /\ UNCHANGED <<conv, storeVars>>

\* e2epod.DeletePodWithWait, or the end of a row that failed.
EndRow ==
    /\ e2e.step \in {"containers", "failed", "panic"}
    /\ e2e' = NoTest
    /\ UNCHANGED <<conv, storeVars>>

NextE2E ==
    \/ \E tc \in Rows, absentNil \in BOOLEAN : CreateSync(tc, absentNil)
    \/ CheckPodResources
    \/ CheckQoS
    \/ CheckPodCgroups
    \/ CheckContainersCgroupLimits
    \/ EndRow

SpecE2E == Init /\ [][NextE2E]_vars

\* ---------------------------------------------------------------- the weight of a CPU request
RequestMillis == (0..MaxDense) \cup {1000 * k + d : k \in 1..MaxCPUs, d \in {-1, 0, 1}}

\* Lines 152 and 155 of VerifyPodCgroups, for a request.
ConvertRequest(milliCPU) ==
    /\ conv.of = "none"
    /\ conv' = Conversion("request", milliCPU, MilliCPUToShares(milliCPU),
                          expectedCPUWeight(MilliCPUToShares(milliCPU)))
    /\ UNCHANGED <<e2e, storeVars>>

\* Line 155 alone, for a shares value.
ConvertShares(shares) ==
    /\ conv.of = "none"
    /\ conv' = Conversion("shares", 0, shares, expectedCPUWeight(shares))
    /\ UNCHANGED <<e2e, storeVars>>

\* The caller puts the result aside.
Forget ==
    /\ conv.of # "none"
    /\ conv' = NoConversion
    /\ UNCHANGED <<e2e, storeVars>>

\* The inputs are drawn only where a conversion can start.
NextWeight ==
    \/ Forget
    \/ conv.of = "none" /\ \E milliCPU \in RequestMillis : ConvertRequest(milliCPU)
    \/ conv.of = "none" /\ \E shares \in MinShares..MaxShares : ConvertShares(shares)

SpecWeight == Init /\ [][NextWeight]_vars

\* ---------------------------------------------------------------- properties
\* The table as a reader sees it.
Table == TableView(heap, podInfoMap)

\* What the three reads return, for every argument, from heap h and table p.
Observed(h, p) ==
    [container |-> [x \in UIDs \X Names |->
                      LET r == GetContainerResources(h, p, x[1], x[2])
                      IN [spec |-> SpecView(r.h, r.v), found |-> r.ok]],
     aggregate |-> [w \in UIDs |->
                      LET r == GetPodLevelResources(h, p, w) IN SpecView(r.h, r.v)],
     table |-> LET r == GetPodResourceInfoMap(h, p) IN TableView(r.h, r.v)]

\* The objects reachable from the addresses of roots.
Reach(h, roots) == LET order == Visit(h, roots, <<>>) IN {order[i] : i \in 1..Len(order)}

\* The spec a caller builds from lit, as a reader sees it.
LitView(lit) == LET a == MakeRR(EmptyFn, lit) IN SpecView(a.h, a.v)

\* C1: read isolation.  What a read returns shares no map with the table, and
\* a caller's write into a returned value (its limits and requests maps, the
\* returned table's entries and container maps) leaves what every read
\* returns, for every argument, as it was before the write.
ReadIsolation ==
    /\ [](op \in ReadOps =>
            Reach(heap, RRRefs(got) \o <<snapshot>>) \cap Reach(heap, <<podInfoMap>>) = {})
    /\ [][op' \in {"MutateGot", "MutateSnapshot"} =>
            Observed(heap', podInfoMap') = Observed(heap, podInfoMap)]_vars

\* A caller has written into the table a read returned, and the store still
\* holds the entry.
ReadIsolationWitness ==
    /\ op = "MutateSnapshot"
    /\ DOMAIN Table # {}
    /\ TableView(heap, snapshot) # Table

\* C2: the table is not aliased on the write side.  A caller's write into a
\* value it passed to a Set, or into the map it gave NewStateMemory, leaves
\* what every read returns as it was.
WriteSideOwned ==
    [][op' \in {"MutateAlloc", "MutateInfo", "MutateInitial"} =>
         Observed(heap', podInfoMap') = Observed(heap, podInfoMap)]_vars

\* C3: SetContainerResources(w, c, s) always succeeds.  Every call completes
\* without a panic, and GetContainerResources(w, c) then returns (s, true).
SetContainerResourcesSucceeds ==
    [][\A w \in UIDs, c \in Names, lit \in RRLits :
         CallSetContainerResources(w, c, lit, FALSE) =>
           /\ ~panicked'
           /\ LET r == GetContainerResources(heap', podInfoMap', w, c)
              IN r.ok /\ SpecView(r.h, r.v) = LitView(lit)]_vars

\* C4: every pod of the table has a container entry or a non-empty aggregate
\* spec.
EntryHasContent ==
    \A w \in DOMAIN Table : DOMAIN Table[w].containers # {} \/ ~EmptySpec(Table[w].aggregate)

\* C5: the table has no entry whose pod UID has length zero.
NoEmptyIdentity == \A w \in DOMAIN Table : Len(w) > 0

\* C6: cascading delete.  After Delete(w, c) with c not empty, the containers
\* of w are the ones it had less c, and w is in the table only if one is
\* left, whatever its aggregate spec: deleting c1 then c2 from a pod of
\* containers {c1, c2} leaves the pod absent.
CascadingDelete ==
    [][\A w \in UIDs, c \in Names :
         CallDelete(w, c) =>
           LET before == IF w \in DOMAIN Table THEN DOMAIN Table[w].containers ELSE {}
               after == TableView(heap', podInfoMap')
           IN IF before \ {c} = {} THEN w \notin DOMAIN after
              ELSE w \in DOMAIN after /\ DOMAIN after[w].containers = before \ {c}]_vars

\* The removal of a pod's container has left the pod absent.
CascadingDeleteWitness == op = "deleteContainer" /\ "u1" \notin DOMAIN Table /\ "" \in DOMAIN Table

\* C8: snapshot isolation.  The table GetPodResourceInfoMap returns equals the
\* store's table at the call, and no later write to the store changes it.
SnapshotIsolation ==
    /\ [](op = "GetPodResourceInfoMap" => TableView(heap, snapshot) = Table)
    /\ [][res = "snapshot" /\ op' \in WriteOps =>
            TableView(heap', snapshot') = TableView(heap, snapshot)]_vars

\* The store has been written since the snapshot was taken, and differs.
SnapshotIsolationWitness ==
    /\ res = "snapshot"
    /\ op \in WriteOps
    /\ DOMAIN TableView(heap, snapshot) # {}
    /\ TableView(heap, snapshot) # Table

\* C9: RemoveOrphanedPods(S) removes the entries whose UID is not in S and
\* nothing else: the keys afterwards are the earlier keys that are in S, and
\* every surviving record is unchanged.
SweepFrame ==
    [][\A S \in SUBSET UIDs :
         CallRemoveOrphanedPods(S) =>
           LET after == TableView(heap', podInfoMap')
           IN /\ DOMAIN after = (DOMAIN Table) \cap S
              /\ \A w \in DOMAIN after : after[w] = Table[w]]_vars

\* A sweep has run and a pod has survived it.
SweepFrameWitness == op = "RemoveOrphanedPods" /\ DOMAIN Table = {"u1"}

\* C10: the sweep is idempotent.  In every reachable table and for every live
\* set S, RemoveOrphanedPods(S) applied twice gives the table it gives
\* applied once.
SweepIdempotent ==
    \A S \in SUBSET UIDs :
      LET once == RemoveOrphanedPods(heap, podInfoMap, S).h
      IN TableView(RemoveOrphanedPods(once, podInfoMap, S).h, podInfoMap) = TableView(once, podInfoMap)

\* A sweep has run on a table of two pods, where a second sweep has work left
\* if the first stopped early.
SweepIdempotentWitness == op = "RemoveOrphanedPods" /\ DOMAIN Table = {""}

\* What the read of locals l has returned, and what that read returns from
\* the table tv.
ReadResult(h, l) ==
    IF l.o = "GetPodResourceInfoMap" THEN [table |-> TableView(h, l.prCopy)]
    ELSE [spec |-> SpecView(h, l.out), ok |-> l.ok]

ReadOf(tv, l) ==
    IF l.o = "GetPodResourceInfoMap" THEN [table |-> tv]
    ELSE IF l.o = "GetPodLevelResources"
    THEN [spec |-> IF l.podUID \in DOMAIN tv THEN tv[l.podUID].aggregate ELSE SpecView(<<>>, ZeroRR),
          ok |-> FALSE]
    ELSE IF l.podUID \in DOMAIN tv /\ l.containerName \in DOMAIN tv[l.podUID].containers
    THEN [spec |-> tv[l.podUID].containers[l.containerName], ok |-> TRUE]
    ELSE [spec |-> SpecView(<<>>, ZeroRR), ok |-> FALSE]

\* C7: with goroutines interleaved at every statement, what a read method is
\* about to return is what it returns from a committed table, the table as
\* some write method that has returned left it (the one the read found when
\* it took the lock, or one committed since): never a table a write has
\* applied in part, never a record made of parts of two.
NoTornRead ==
    \A t \in Procs :
        (pc[t] = "return" /\ loc[t].o \in ReadOps) =>
            \E tv \in versions[t] : ReadResult(heap, loc[t]) = ReadOf(tv, loc[t])

\* A GetPodResourceInfoMap about to return a table whose record of "u1" has
\* an aggregate and containers, while SetPodResourceInfoMap("u1", ...) of
\* another goroutine waits for the lock.
NoTornReadWitness ==
    \E t \in Procs, u \in Procs :
        /\ pc[t] = "return" /\ loc[t].o = "GetPodResourceInfoMap"
        /\ "u1" \in DOMAIN heap[loc[t].prCopy].m
        /\ DOMAIN TableView(heap, loc[t].prCopy)["u1"].containers = {"c1", "c2"}
        /\ ~EmptySpec(TableView(heap, loc[t].prCopy)["u1"].aggregate)
        /\ pc[u] = "lock" /\ loc[u].o = "SetPodResourceInfoMap"

\* The write of locals l applied to heap h and table p.
ApplyWrite(h, p, l) ==
    IF l.o = "SetContainerResources"
    THEN SetContainerResources(h, p, l.podUID, l.containerName, l.alloc)
    ELSE IF l.o = "SetPodLevelResources" THEN SetPodLevelResources(h, p, l.podUID, l.alloc)
    ELSE SetPodResourceInfoMap(h, p, l.podUID, l.info)

\* The table that write leaves when it runs alone on an empty table.
WriteAlone(h, l) ==
    LET n == Fresh(h) IN TableView(ApplyWrite(Put(h, n, PodsObj(EmptyFn)), n, l).h, n)

\* C11: a sweep racing a write.  When RemoveOrphanedPods(S), "u1" not in S,
\* and one Set about "u1" run in two goroutines and both have returned, "u1"
\* is absent or holds exactly the record that Set leaves on a table without
\* "u1"; and at every step of the race every other pod keeps its record,
\* unless the step is the sweep's and the pod is not in S, when it is removed.
RaceOutcome ==
    /\ []((\A t \in Procs : pc[t] = "done") =>
            \/ "u1" \notin DOMAIN Table
            \/ Table["u1"] = WriteAlone(heap, loc[Writer])["u1"])
    /\ [][\A x \in UIDs \ {"u1"} :
            LET after == TableView(heap', podInfoMap')
            IN /\ x \in DOMAIN after => x \in DOMAIN Table /\ after[x] = Table[x]
               /\ (x \in DOMAIN Table /\ x \notin DOMAIN after) =>
                     /\ pc[Sweeper] = "body" /\ pc'[Sweeper] = "body"
                     /\ x \notin loc[Sweeper].remainingPods]_vars

\* Both have returned, "u1" is back with the record of the write alone, and
\* the other pod, in S, is still there.
RaceOutcomeWitness ==
    /\ \A t \in Procs : pc[t] = "done"
    /\ loc[Sweeper].remainingPods = {""}
    /\ DOMAIN Table = {"", "u1"}
    /\ DOMAIN Table["u1"].containers = {"c1", "c2"}
    /\ ~EmptySpec(Table[""].aggregate)

\* C12: the frame of Delete.  Delete(w, "") leaves w absent.  Delete(w, c)
\* with c not empty leaves c not found in w, and when w had other containers
\* it leaves them and the aggregate spec of w as they were.  In both cases
\* every other pod is in the table exactly when it was and with the record it
\* had, also when w or c was absent, and the call returns without a panic.
DeleteFrame ==
    [][\A w \in UIDs, c \in DeleteNames :
         (op' \in {"Delete", "deleteContainer"} /\ CallDelete(w, c)) =>
           LET after == TableView(heap', podInfoMap')
               others == IF w \in DOMAIN Table THEN (DOMAIN Table[w].containers) \ {c} ELSE {}
           IN /\ ~panicked'
              /\ c = "" => w \notin DOMAIN after
              /\ w \in DOMAIN after => c \notin DOMAIN after[w].containers
              /\ (c # "" /\ others # {}) =>
                    /\ w \in DOMAIN after
                    /\ DOMAIN after[w].containers = others
                    /\ \A d \in others : after[w].containers[d] = Table[w].containers[d]
                    /\ after[w].aggregate = Table[w].aggregate
              /\ \A x \in UIDs \ {w} :
                    /\ x \in DOMAIN after <=> x \in DOMAIN Table
                    /\ x \in DOMAIN after => after[x] = Table[x]]_vars

\* A container has been deleted from a pod that keeps another container and
\* its aggregate spec, next to another pod.
DeleteFrameWitness ==
    /\ op = "deleteContainer"
    /\ DOMAIN Table = {"", "u1"}
    /\ DOMAIN Table["u1"].containers = {"c2"}
    /\ ~EmptySpec(Table["u1"].aggregate)
    /\ ~EmptySpec(Table["u1"].containers["c2"])

\* The record of pod w in table view tv, an absent pod having the record of
\* no containers and an empty aggregate spec.
RecordOf(tv, w) ==
    IF w \in DOMAIN tv THEN tv[w] ELSE [aggregate |-> LitView(0), containers |-> EmptyFn]

\* Every pod but w is in the table after exactly when it was in the table
\* before, with the record it had.
OthersUnchanged(before, after, w) ==
    \A x \in UIDs \ {w} :
        /\ x \in DOMAIN after <=> x \in DOMAIN before
        /\ x \in DOMAIN after => after[x] = before[x]

\* C19: the frames of the two narrow Sets.  After SetPodLevelResources(w, s)
\* the pod w is in the table, GetPodLevelResources(w) returns s, the
\* containers of w are the ones it had with the specs they had, and every
\* other pod is unchanged.  After SetContainerResources(w, c, s) the aggregate
\* spec of w, the other containers of w and every other pod are unchanged.
NarrowSetFrame ==
    [][\A w \in UIDs, lit \in RRLits :
         /\ (op' = "SetPodLevelResources" /\ CallSetPodLevelResources(w, lit, FALSE)) =>
               LET after == TableView(heap', podInfoMap')
                   r == GetPodLevelResources(heap', podInfoMap', w)
               IN /\ w \in DOMAIN after
                  /\ SpecView(r.h, r.v) = LitView(lit)
                  /\ after[w].containers = RecordOf(Table, w).containers
                  /\ OthersUnchanged(Table, after, w)
         /\ \A c \in Names :
               (op' = "SetContainerResources" /\ CallSetContainerResources(w, c, lit, FALSE)) =>
                   LET after == TableView(heap', podInfoMap')
                       was == RecordOf(Table, w).containers
                       is == RecordOf(after, w).containers
                   IN /\ RecordOf(after, w).aggregate = RecordOf(Table, w).aggregate
                      /\ \A d \in Names \ {c} :
                            /\ d \in DOMAIN is <=> d \in DOMAIN was
                            /\ d \in DOMAIN is => is[d] = was[d]
                      /\ OthersUnchanged(Table, after, w)]_vars

\* An aggregate spec has been set on a pod that keeps two containers with
\* specs, next to another pod.
NarrowSetFrameWitness ==
    /\ op = "SetPodLevelResources"
    /\ DOMAIN Table = {"", "u1"}
    /\ \E w \in UIDs :
        /\ DOMAIN Table[w].containers = {"c1", "c2"}
        /\ ~EmptySpec(Table[w].containers["c1"])
        /\ Table[w].aggregate = LitView(0)

\* C20: SetPodResourceInfoMap(w, r) replaces the record of w and merges
\* nothing.  Afterwards GetPodLevelResources(w) returns the aggregate spec of
\* r, GetContainerResources(w, c) finds c exactly when r has it, with the spec
\* r gives it, and every other pod is unchanged.
RecordReplaced ==
    [][\A w \in UIDs, lit \in InfoLits :
         (op' = "SetPodResourceInfoMap" /\ CallSetPodResourceInfoMap(w, lit, FALSE)) =>
             LET after == TableView(heap', podInfoMap')
                 agg == GetPodLevelResources(heap', podInfoMap', w)
             IN /\ SpecView(agg.h, agg.v) = LitView(lit.agg)
                /\ \A c \in Names :
                      LET r == GetContainerResources(heap', podInfoMap', w, c)
                      IN /\ r.ok <=> (~lit.nilmap /\ c \in lit.names)
                         /\ r.ok => SpecView(r.h, r.v) = LitView(lit.each)
                /\ OthersUnchanged(Table, after, w)]_vars

\* A record without containers has been put in the place of one: the pod is
\* in the table with no container, next to another pod that has two.
RecordReplacedWitness ==
    /\ op = "SetPodResourceInfoMap"
    /\ DOMAIN Table = {"", "u1"}
    /\ DOMAIN Table["u1"].containers = {}
    /\ DOMAIN Table[""].containers = {"c1", "c2"}

\* C15: the weight of a CPU request is worked out in two integer steps.  The
\* shares of a request lie in 2..262144: 2 for the smallest requests, 1024 for
\* 1000m, (milliCPU * 1024) / 1000 in between and 262144 from 256000m on.  The
\* weight of every shares value in 2..262144 lies in 1..10000, is 1 for 2 and
\* 10000 for 262144, is 1 + ((shares - 2) * 9999) / 262142 rounded toward zero,
\* and grows by at most one from one shares value to the next.
WeightConversion ==
    /\ conv.of # "none" =>
          /\ conv.weight \in 1..10000
          /\ conv.shares = 2 => conv.weight = 1
          /\ conv.shares = 262144 => conv.weight = 10000
          /\ conv.shares <= 214000 => conv.weight = 1 + ((conv.shares - 2) * 9999) \div 262142
          /\ conv.shares > 2 => conv.weight - expectedCPUWeight(conv.shares - 1) \in {0, 1}
    /\ conv.of = "request" =>
          /\ conv.shares \in 2..262144
          /\ conv.milliCPU <= 1 => conv.shares = 2
          /\ conv.milliCPU = 1000 => conv.shares = 1024
          /\ conv.shares \in 3..262143 => conv.shares = (conv.milliCPU * 1024) \div 1000
          /\ conv.milliCPU >= 256000 => conv.shares = 262144

\* The highest shares value was converted, and gave the highest weight.
WeightConversionWitness == conv.of = "shares" /\ conv.shares = 262144 /\ conv.weight = 10000

\* C16: the weight of a CPU request is not above the weight of any higher
\* request, up to and beyond the request that reaches the ceiling of the shares.
WeightMonotone ==
    conv.of = "request" =>
        \A r2 \in RequestMillis :
            conv.milliCPU < r2 => conv.weight <= expectedCPUWeight(MilliCPUToShares(r2))

\* A request of one CPU was converted; two CPUs weigh more.
WeightMonotoneWitness ==
    /\ conv.of = "request" /\ conv.milliCPU = 1000
    /\ conv.weight < expectedCPUWeight(MilliCPUToShares(2000))

\* C13: a container's cpu.max is worked out from its own CPU limit when it has
\* one, else from the pod's when the pod has one, and is not written otherwise;
\* memory.max follows the same rule on its own; cpu.weight comes from the
\* container's own request only.  VerifyContainersCgroupLimits finds no
\* difference on any pod, and what it compares is the pod's limit for a
\* container that sets none.  With pod limits of 100m and 100Mi a container c2
\* without limits has cpu.max "10000 100000" and memory.max "104857600".
LimitInheritance ==
    e2e.step # "start" =>
        LET agg == e2e.tc.podResources.v
            own(c) == IF c.Resources.isnil THEN NoResourceInfo ELSE c.Resources.v
            byName(n) == CHOOSE c \in {e2e.tc.containers[i] : i \in 1..Len(e2e.tc.containers)} :
                             c.Name = n
            check == VerifyContainersCgroupLimits(e2e.pod, e2e.files, e2e.absentNil)
        IN /\ \A i \in 1..Len(e2e.tc.containers) :
                 LET c == e2e.tc.containers[i]
                     cpu == IF own(c).CPULim # <<>> THEN own(c).CPULim ELSE agg.CPULim
                     mem == IF own(c).MemLim # <<>> THEN own(c).MemLim ELSE agg.MemLim
                     f == e2e.files[c.Name]
                 IN /\ IF cpu = <<>> THEN "cpu.max" \notin DOMAIN f
                       ELSE "cpu.max" \in DOMAIN f /\ f["cpu.max"] = QuotaLine(MustParse(cpu))
                    /\ IF mem = <<>> THEN "memory.max" \notin DOMAIN f
                       ELSE "memory.max" \in DOMAIN f
                            /\ f["memory.max"] = FormatInt(Value(MustParse(mem)))
                    /\ "cpu.weight" \in DOMAIN f <=> own(c).CPUReq # <<>>
                    /\ (c.Name = "c2" /\ agg.CPULim = Cpu100m /\ own(c).CPULim = <<>>) =>
                          f["cpu.max"] = <<"1", "0", "0", "0", "0", " ", "1", "0", "0", "0", "0", "0">>
                    /\ (c.Name = "c2" /\ agg.MemLim = Mem100Mi /\ own(c).MemLim = <<>>) =>
                          f["memory.max"] = <<"1", "0", "4", "8", "5", "7", "6", "0", "0">>
           /\ check.status = "ok"
           /\ \A x \in check.asserted :
                 /\ x.file = "cpu.max" => own(byName(x.scope)).CPULim = <<>> /\ agg.CPULim # <<>>
                 /\ x.file = "memory.max" => own(byName(x.scope)).MemLim = <<>> /\ agg.MemLim # <<>>
                 /\ x.value = e2e.files[x.scope][x.file]

\* The row with limits of 100m and 100Mi for the pod, c1 with limits of its own
\* and c2 with none has passed the check of the containers.
LimitInheritanceWitness ==
    /\ e2e.step = "containers" /\ e2e.tc = tests[3]
    /\ e2e.files["c2"]["memory.max"] = <<"1", "0", "4", "8", "5", "7", "6", "0", "0">>

\* C14: what is not set is never encoded as a value.  Of the pod's own cgroup
\* the test compares cpu.max only when the pod has a CPU limit, memory.max only
\* when it has a memory limit and cpu.weight only when it has a CPU request, and
\* it ends with a panic on none of the three; the cpu.max it expects is
\* 100000 * limitMillis / 1000 followed by the period 100000.
AbsentNeverEncoded ==
    e2e.step # "start" =>
        LET agg == e2e.tc.podResources.v
        IN /\ e2e.step # "panic"
           /\ \A x \in e2e.asserted :
                 x.scope = "" =>
                    /\ x.file = "cpu.weight" => agg.CPUReq # <<>>
                    /\ x.file = "memory.max" => agg.MemLim # <<>>
                    /\ x.file = "cpu.max" =>
                          /\ agg.CPULim # <<>>
                          /\ x.value = FormatInt((100000 * MilliValue(MustParse(agg.CPULim))) \div 1000)
                                          \o <<" ", "1", "0", "0", "0", "0", "0">>

\* What a row asks for at a scope, and whether request and limit are both
\* written and write the same amount for CPU and for memory.
RowSpecifies(ri) == ri.CPUReq # <<>> \/ ri.CPULim # <<>> \/ ri.MemReq # <<>> \/ ri.MemLim # <<>>

RowPinned(ri) ==
    /\ ri.CPUReq # <<>> /\ ri.CPULim # <<>> /\ ri.MemReq # <<>> /\ ri.MemLim # <<>>
    /\ MilliValue(MustParse(ri.CPUReq)) = MilliValue(MustParse(ri.CPULim))
    /\ Value(MustParse(ri.MemReq)) = Value(MustParse(ri.MemLim))

RowBelow(ri) ==
    /\ ri.CPUReq # <<>> /\ ri.CPULim # <<>> /\ ri.MemReq # <<>> /\ ri.MemLim # <<>>
    /\ MilliValue(MustParse(ri.CPUReq)) < MilliValue(MustParse(ri.CPULim))
    /\ Value(MustParse(ri.MemReq)) < Value(MustParse(ri.MemLim))

RowContainers(tc) ==
    {IF tc.containers[i].Resources.isnil THEN NoResourceInfo ELSE tc.containers[i].Resources.v :
        i \in 1..Len(tc.containers)}

\* VerifyQoS has passed on the row.
QoSVerified == e2e.step \in {"qos", "pod cgroups", "containers"}

ReadsOfAbsent ==
    [][/\ \A w \in UIDs, c \in Names :
             (op' = "GetContainerResources" /\ CallGetContainerResources(w, c)) =>
                LET present == w \in DOMAIN Table /\ c \in DOMAIN Table[w].containers
                IN /\ found' = present
                   /\ present => SpecView(heap', got') = Table[w].containers[c]
                   /\ ~present => EmptySpec(SpecView(heap', got'))
                   /\ TableView(heap', podInfoMap') = Table
       /\ \A w \in UIDs :
             (op' = "GetPodLevelResources" /\ CallGetPodLevelResources(w)) =>
                /\ w \in DOMAIN Table => SpecView(heap', got') = Table[w].aggregate
                /\ w \notin DOMAIN Table => EmptySpec(SpecView(heap', got'))
                /\ TableView(heap', podInfoMap') = Table
       /\ (op' = "GetPodResourceInfoMap" /\ CallGetPodResourceInfoMap) =>
             /\ TableView(heap', snapshot') = Table
             /\ TableView(heap', podInfoMap') = Table]_vars

\* A container was read from a store with no pod: nothing was found and the
\* store still has no pod.
ReadsOfAbsentWitness ==
    /\ op = "GetContainerResources" /\ res = "got" /\ ~found
    /\ EmptySpec(SpecView(heap, got))
    /\ DOMAIN Table = {}

\* C22: a goroutine inside a write method is alone inside the store, a
\* goroutine inside a method holds the mutex in the method's mode and a
\* goroutine outside holds nothing, and with fair scheduling every call that
\* has reached its Lock or RLock returns to its caller.
LockDisciplineAndProgress ==
    /\ [](\A t \in Procs :
            /\ (InCritical(t) /\ loc[t].o \in WriteOps) =>
                  /\ mu.writer = t /\ mu.readers = {}
                  /\ \A u \in Procs \ {t} : ~InCritical(u)
            /\ (InCritical(t) /\ loc[t].o \in ReadOps) => mu.writer = 0 /\ t \in mu.readers
            /\ ~InCritical(t) => mu.writer # t /\ t \notin mu.readers)
    /\ \A t \in Procs : (pc[t] = "lock") ~> (pc[t] = "done")
====
